---- MODULE Spec2Model ----
(***************************************************************************)
(* Model of the AIS tile collector (src/collector/collector.py): the       *)
(* orchestrator loop _run_loop, its caller main, the fetch wrapper         *)
(* fetch_with_backoff, the persister insert_fixes and the aggregate        *)
(* refresh refresh_all (src/collector/maintenance.py).                     *)
(*                                                                         *)
(* A fetch session (a webdriver.Chrome object returned by open_driver) is  *)
(* named by the place and the cycle count at which it was opened:          *)
(* <<cycles, site>>, site in {"main", "age", "fail"}.  Every open_driver   *)
(* call site runs at most once per value of cycles, so the names are       *)
(* distinct, as the Python objects are.                                    *)
(***************************************************************************)
EXTENDS Integers, Sequences, FiniteSets, TLC

\* ------------------------------ Configuration ------------------------------
CYCLES_PER_DRIVER == 30
TILES_PER_CYCLE == 8
\* COOLDOWN_FAIL_RATIO = 0.4 and REOPEN_FAIL_RATIO = 0.6, in tenths.  The
\* code compares the float failed_tiles / TILES_PER_CYCLE with the float
\* literal; both are correctly rounded, so the comparison agrees with the
\* comparison of the rationals failed_tiles / TILES_PER_CYCLE and 4/10, 6/10.
COOLDOWN_FAIL_RATIO_TENTHS == 4
REOPEN_FAIL_RATIO_TENTHS == 6
COOLDOWN_SECONDS == 120
COOLDOWN_JITTER == 60
\* len(tiles) of build_tile_cycle for the STATIC_TILES of lines 164-168
TOTAL_TILES == 31
MAX_RETRIES == 0
BACKOFF_BASE_SECS == 5
ENABLE_BBOX_PREFILTER == TRUE
DROP_IF_OBS_AGE_MIN == 720
MAX_TANKER_SOG_KN == 35
\* insert_fixes, line 630: batch_size: int = 2000
BATCH_SIZE == 2000

\* ------------------------------ Bounds -------------------------------------
\* no cycle is started once this many cycles were completed
MaxCycles == 31
\* largest tiles-per-cycle value of the small configurations
MaxTilesPerCycle == 10
\* largest cycles-per-session value of the small configurations
MaxCyclesPerDriver == 2
\* no cycle is started in a small configuration after this many cycles
MaxSmallCycles == 4
\* int(random.uniform(0, COOLDOWN_JITTER)) is drawn from 0..MaxJitterDraw
MaxJitterDraw == 2
\* largest tiles-per-cycle value of the startup configurations
MaxStartTiles == 3
\* largest tile list of the startup configurations
MaxTotalTiles == 4
\* most rows of one payload, tiles per cycle and cycles of the runs that
\* follow the row counters
MaxRows == 2
\* most rows of a batch put to the normalizer
MaxBatch == 3
MaxStatsTiles == 2
MaxStatsCycles == 3
\* largest max_retries value of the startup configurations
MaxRetries == 3
\* largest batch_size insert_fixes is called with
MaxBatchSize == 3

VARIABLES
    tiles_per_cycle,    \* the value of TILES_PER_CYCLE of this run
    cycles_per_driver,  \* the value of CYCLES_PER_DRIVER of this run
    cycle_limit,        \* bound of the exploration: cycles never exceeds it
    total_tiles,        \* number of tiles in STATIC_TILES of this run
    max_retries,        \* the value of MAX_RETRIES of this run
    store_up,           \* the store accepts connections during main's startup
    AREA_BBOXES,        \* the module global AREA_BBOXES
    kept_counts,        \* for each number n of rows a payload may hold, the
                        \* values len(batch) takes at line 734 over the
                        \* payloads of n rows, with the boxes as loaded
    tile_iter,          \* position of the next tile the iterator tile_iter yields
    tiles_this_cycle,   \* _run_loop: tiles_this_cycle, as the number of times
                        \* each position of the tile list is in it (shuffle
                        \* reorders the list and leaves these numbers alone)
    window,             \* the positions handed out by each of the last batches,
                        \* one set per batch, at most WindowLen sets
    payload,            \* fetch_with_backoff: the payload of the last fetch_once
    attempt,            \* fetch_with_backoff: attempt
    fetches,            \* fetch_once calls made by the current call
    failedFetches,      \* those of them whose payload was not ok
    events,             \* ui_set_bottom calls made by the current call
    backoffs,           \* the backoff sleeps of the current call, in order
    returnedVia,        \* the return statement the current call left by
    pauses,             \* inter-tile pacing pauses slept in this cycle
    max_rows,           \* the most rows one payload holds in this exploration
    max_dropped,        \* the most rows the store's dedupe trigger drops from
                        \* one batch in this exploration; at 0 the payloads
                        \* hold rows the normalizer keeps and no others
    payload_rows,       \* len(payload["data"]["rows"]) of the last payload
    received_total,     \* _run_loop: received_total
    kept_total,         \* _run_loop: kept_total
    inserted_total,     \* _run_loop: inserted_total
    normalizeCalls,     \* normalize_rows_from_payload calls, this cycle
    store_boxes,        \* the buffered boxes the store holds
    max_tanker_sog_kn,  \* the value of MAX_TANKER_SOG_KN of this run
    rows,               \* normalize_rows_from_payload: rows, the raw rows
    fetch_ts,           \* normalize_rows_from_payload: fetch_ts, in minutes
    stages,             \* for each raw row the stage that dropped it, or
                        \* "emitted"
    out,                \* normalize_rows_from_payload: the list it returns
    normalized,         \* normalize_rows_from_payload has returned
    uids,               \* make_vessel_uid of each raw row
    resolved,           \* make_vessel_uid has returned for each raw row
    batch_size,         \* insert_fixes: batch_size
    handed,             \* insert_fixes: rows, the list it was called with
    chunks,             \* the lists handed to cur.executemany, in order
    inserted,           \* insert_fixes: the count it returns
    persisted,          \* insert_fixes has returned
    pc,                 \* position of the control thread
    cycles,             \* _run_loop: cycles
    driver,             \* _run_loop: driver (the loop's session handle)
    live,               \* sessions opened and not yet quit
    idx,                \* tiles of tiles_this_cycle already processed
    failed_tiles,       \* _run_loop: failed_tiles
    attempts,           \* fetch_with_backoff calls per batch position, this cycle
    fetchedWith,        \* sessions handed to fetch_with_backoff, this cycle
    insertCalls,        \* insert_fixes calls of this cycle
    refreshCalls,       \* refresh_all calls of this cycle
    summaries,          \* cycle summaries emitted for this cycle
    health,             \* branch of the health policy the loop is in
    outcome,            \* branch chosen by the last health evaluation of this cycle
    freshSession,       \* session opened by the failure recycle that ended the
                        \* last cycle, until the tiles of this cycle are done
    COOLDOWN_TIME,      \* _run_loop: COOLDOWN_TIME (the reported duration)
    slept,              \* duration of the cooldown / recycle sleep of this cycle
    cadenceWaited,      \* the end-of-cycle wait of the last cycle: "No" (lines
                        \* 795-810 did not run), "Zero" (sleep_for was 0), "Slept"
    driverCycles,       \* cycles in which the loop's driver served a fetch
    exitCause           \* why main's finally clause ran

vars == <<tiles_per_cycle, cycles_per_driver, cycle_limit, total_tiles,
          max_retries, store_up, AREA_BBOXES, kept_counts, tile_iter, tiles_this_cycle,
          window, payload, attempt, fetches, failedFetches, events, backoffs,
          returnedVia, pauses, max_rows, max_dropped, payload_rows,
          received_total, kept_total, inserted_total, normalizeCalls,
          store_boxes, max_tanker_sog_kn, rows, fetch_ts, stages, out,
          normalized, uids, resolved, batch_size, handed, chunks, inserted,
          persisted, pc, cycles, driver,
          live, idx, failed_tiles, attempts, fetchedWith, insertCalls,
          refreshCalls, summaries, health, outcome, freshSession,
          COOLDOWN_TIME, slept, cadenceWaited, driverCycles, exitCause>>

config == <<tiles_per_cycle, cycles_per_driver, cycle_limit, total_tiles,
            max_retries, store_up, max_rows, max_dropped, store_boxes,
            max_tanker_sog_kn, batch_size>>

persister == <<handed, chunks, inserted, persisted>>

normalizer == <<rows, fetch_ts, stages, out, normalized, uids, resolved,
                persister>>

sched == <<tile_iter, tiles_this_cycle, window>>

call == <<payload, payload_rows, attempt, fetches, failedFetches, events,
          backoffs, returnedVia>>

stats == <<received_total, kept_total, inserted_total>>

\* ------------------------------ Helpers ------------------------------------
Max(a, b) == IF a >= b THEN a ELSE b
Min(a, b) == IF a <= b THEN a ELSE b

NoSession == <<-1, "none">>
NoTime == -1

\* main: driver = open_driver(...) ; main never rebinds its local
MainDriver == <<0, "main">>

\* the payload shapes fetch_once can return: None, a dict without "data" or
\* without "rows", a dict with an empty row list, a dict with rows
PayloadKinds == {"None", "NoDataKey", "NoRowsKey", "EmptyRows", "Rows"}

\* ok = bool(payload and payload.get("data", {}).get("rows"))
PayloadOkIfRowsKey(p) == p \in {"EmptyRows", "Rows"}

PayloadOk(p) == p = "Rows"

\* variant: the quit is skipped and the session stays live
QuitSkipped(d, l) == l

\* safe_quit(d) / d.quit(): the session d is no longer live
Quit(d, l) == l \ {d}

\* variant: the recycle period is one cycle too long
AgeRecycleDueLate(c, cpd) == c % (cpd + 1) = 0 /\ c # 0

\* cycles % CYCLES_PER_DRIVER == 0 and cycles != 0
AgeRecycleDue(c, cpd) == c % cpd = 0 /\ c # 0

\* variant: the cooldown threshold is compared with > instead of >=
HealthOutcomeStrict(failed, tiles) ==
    IF failed * 10 > COOLDOWN_FAIL_RATIO_TENTHS * Max(1, tiles)
    THEN IF failed * 10 >= REOPEN_FAIL_RATIO_TENTHS * Max(1, tiles)
         THEN "Recycling"
         ELSE "Cooldown"
    ELSE "Normal"

\* the branch taken at lines 769-792 for fail_ratio = failed / max(1, tiles)
HealthOutcome(failed, tiles) ==
    IF failed * 10 >= COOLDOWN_FAIL_RATIO_TENTHS * Max(1, tiles)
    THEN IF failed * 10 >= REOPEN_FAIL_RATIO_TENTHS * Max(1, tiles)
         THEN "Recycling"
         ELSE "Cooldown"
    ELSE "Normal"

\* the buffered boxes the store returns to load_area_bboxes (lines 465-477)
StoreBBoxes == {<<0, 0, 10, 10>>, <<20, 0, 30, 10>>}

\* variant: an empty tile list is accepted
TilesEmptyAccepted(total) == FALSE

\* build_tile_cycle, lines 338-339: if not tiles: raise ValueError
TilesEmpty(total) == total = 0

\* list(islice(tile_iter, n)) with the iterator at position c of a list of
\* total tiles: how often each position of the list is in the batch
BatchOf(c, n, total) ==
    [p \in 0..(total - 1) |-> Cardinality({i \in 0..(n - 1) : (c + i) % total = p})]

\* variant: the batch is cut from the list itself, which ends at its last
\* tile (islice over the list instead of over the cycle iterator)
BatchOfList(c, n, total) ==
    [p \in 0..(total - 1) |-> IF c <= p /\ p < c + n THEN 1 ELSE 0]

\* lines 711-712: the batch the loop pulls
PulledBatch(c, n, total) == BatchOf(c, n, total)

\* the sum of the numbers a batch holds for the positions below k
RECURSIVE CountBelow(_, _)
CountBelow(batch, k) ==
    IF k = 0 THEN 0 ELSE batch[k - 1] + CountBelow(batch, k - 1)

\* len(tiles_this_cycle): the for loop of line 721 makes that many passes
BatchLen(batch) == CountBelow(batch, Cardinality(DOMAIN batch))

\* variant: every batch starts at the head of the list (islice over the
\* list instead of over the cycle iterator)
AdvanceFromHead(c, n, total) == 0

\* the position of itertools.cycle after n more tiles were taken
Advance(c, n, total) == (c + n) % total

\* ceil(total / n): the number of batches that take total tiles
WindowLen == (total_tiles + tiles_per_cycle - 1) \div tiles_per_cycle

\* the last WindowLen entries of w followed by s
Slide(w, s) ==
    LET a == Append(w, s)
    IN  IF Len(a) > WindowLen THEN SubSeq(a, Len(a) - WindowLen + 1, Len(a)) ELSE a

\* no call of fetch_with_backoff is in progress
NoCall ==
    /\ payload = "NoPayload"
    /\ payload_rows = 0
    /\ attempt = 0
    /\ fetches = 0
    /\ failedFetches = 0
    /\ events = 0
    /\ backoffs = <<>>
    /\ returnedVia = "None"

\* the locals of fetch_with_backoff are gone once its payload was judged
EndCall ==
    /\ payload' = "NoPayload"
    /\ payload_rows' = 0
    /\ attempt' = 0
    /\ fetches' = 0
    /\ failedFetches' = 0
    /\ events' = 0
    /\ backoffs' = <<>>
    /\ returnedVia' = "None"

\* 2 ** k
RECURSIVE Pow2(_)
Pow2(k) == IF k = 0 THEN 1 ELSE 2 * Pow2(k - 1)

\* variant: every fetch uses the session main opened
FetchSessionOfMain == MainDriver

\* line 724: fetch_with_backoff is handed the driver the loop holds
FetchSession == driver

\* variant: the retry bound is tested one attempt late
ExhaustedLate(a, max) == a > max

\* fetch_with_backoff, line 507: if attempt >= max_retries
Exhausted(a, max) == a >= max

\* variant: every backoff sleep is the base
BackoffSleepFlat(a) == BACKOFF_BASE_SECS

\* line 514: sleep_s = BACKOFF_BASE_SECS * (2 ** attempt)
BackoffSleep(a) == BACKOFF_BASE_SECS * Pow2(a)

\* variant: the success branch reports every success
SuccessEventsAlways(a) == 1

\* lines 500-504: the success branch calls ui_set_bottom only if attempt > 0
SuccessEvents(a) == IF a > 0 THEN 1 ELSE 0

\* variant: the exhausted branch returns without the pacing pause
ExhaustedPauseSkipped(n) == n

\* lines 511-512: the exhausted branch sleeps one pacing pause
ExhaustedPause(n) == n + 1

\* ------------------------- values of a raw row ------------------------------
\* A value of a raw row is None or a text; a text is the sequence of its
\* characters (str(x) of the value the provider sent).  None is a sequence of
\* one element that is no character.
None == <<"None">>

Txt(v) == IF v = None THEN <<>> ELSE v

Digits == {"0", "1", "2", "3", "4", "5", "6", "7", "8", "9"}

DigitVal(c) ==
    CASE c = "0" -> 0 [] c = "1" -> 1 [] c = "2" -> 2 [] c = "3" -> 3
      [] c = "4" -> 4 [] c = "5" -> 5 [] c = "6" -> 6 [] c = "7" -> 7
      [] c = "8" -> 8 [] c = "9" -> 9

LetterPairs ==
    {<<"a", "A">>, <<"b", "B">>, <<"c", "C">>, <<"d", "D">>, <<"e", "E">>,
     <<"f", "F">>, <<"g", "G">>, <<"h", "H">>, <<"i", "I">>, <<"j", "J">>,
     <<"k", "K">>, <<"l", "L">>, <<"m", "M">>, <<"n", "N">>, <<"o", "O">>,
     <<"p", "P">>, <<"q", "Q">>, <<"r", "R">>, <<"s", "S">>, <<"t", "T">>,
     <<"u", "U">>, <<"v", "V">>, <<"w", "W">>, <<"x", "X">>, <<"y", "Y">>,
     <<"z", "Z">>}

UpperChar(c) ==
    IF \E q \in LetterPairs : q[1] = c
    THEN (CHOOSE q \in LetterPairs : q[1] = c)[2]
    ELSE c

LowerChar(c) ==
    IF \E q \in LetterPairs : q[2] = c
    THEN (CHOOSE q \in LetterPairs : q[2] = c)[1]
    ELSE c

\* str.upper() and str.lower()
Upper(t) == [i \in 1..Len(t) |-> UpperChar(t[i])]
Lower(t) == [i \in 1..Len(t) |-> LowerChar(t[i])]

\* str.strip(): leading and trailing blanks are removed
RECURSIVE LStrip(_)
LStrip(t) == IF t # <<>> /\ Head(t) = " " THEN LStrip(Tail(t)) ELSE t

RECURSIVE RStrip(_)
RStrip(t) ==
    IF t # <<>> /\ t[Len(t)] = " " THEN RStrip(SubSeq(t, 1, Len(t) - 1)) ELSE t

Strip(t) == RStrip(LStrip(t))

\* str.isdigit(): at least one character and every character a digit
IsDigit(t) == t # <<>> /\ \A i \in 1..Len(t) : t[i] \in Digits

\* str.startswith(c) for one character c
StartsWith(t, c) == t # <<>> /\ Head(t) = c

\* the number a text of digits denotes
RECURSIVE DigitsVal(_)
DigitsVal(t) ==
    IF t = <<>> THEN 0
    ELSE 10 * DigitsVal(SubSeq(t, 1, Len(t) - 1)) + DigitVal(t[Len(t)])

\* the result of a parse that failed (the exception of int() or float())
NoParse == [ok |-> FALSE, nan |-> FALSE, num |-> 0, den |-> 1]

\* int(t) of a text: blanks around it are ignored, one sign may precede the
\* digits, anything else raises
ParseInt(t) ==
    LET u    == Strip(t)
        sgn  == u # <<>> /\ Head(u) \in {"-", "+"}
        body == IF sgn THEN Tail(u) ELSE u
    IN  IF IsDigit(body)
        THEN [ok |-> TRUE, nan |-> FALSE,
              num |-> IF sgn /\ Head(u) = "-" THEN 0 - DigitsVal(body)
                      ELSE DigitsVal(body),
              den |-> 1]
        ELSE NoParse

\* the position of the first "." of a text, or 0
DotAt(t) ==
    IF \E i \in 1..Len(t) : t[i] = "."
    THEN CHOOSE i \in 1..Len(t) : t[i] = "." /\ \A j \in 1..(i - 1) : t[j] # "."
    ELSE 0

RECURSIVE Pow10(_)
Pow10(k) == IF k = 0 THEN 1 ELSE 10 * Pow10(k - 1)

\* float(t) of a text, as the fraction num / den it denotes: digits with one
\* optional sign and one optional decimal point, or nan; anything else raises
ParseFloat(t) ==
    LET u    == Strip(t)
        sgn  == u # <<>> /\ Head(u) \in {"-", "+"}
        body == IF sgn THEN Tail(u) ELSE u
        d    == DotAt(body)
        ip   == IF d = 0 THEN body ELSE SubSeq(body, 1, d - 1)
        fp   == IF d = 0 THEN <<>> ELSE SubSeq(body, d + 1, Len(body))
        mag  == DigitsVal(ip) * Pow10(Len(fp)) + DigitsVal(fp)
    IN  IF Lower(body) = <<"n", "a", "n">>
        THEN [ok |-> TRUE, nan |-> TRUE, num |-> 0, den |-> 1]
        ELSE IF /\ ip \o fp # <<>>
                /\ \A i \in 1..Len(ip) : ip[i] \in Digits
                /\ \A i \in 1..Len(fp) : fp[i] \in Digits
        THEN [ok |-> TRUE, nan |-> FALSE,
              num |-> IF sgn /\ Head(u) = "-" THEN 0 - mag ELSE mag,
              den |-> Pow10(Len(fp))]
        ELSE NoParse

\* _to_float (lines 343-346): None for None and for a text float() rejects
to_float(x) == IF x = None THEN NoParse ELSE ParseFloat(x)

\* _to_str (lines 353-356): the stripped text, None if nothing is left
to_str(x) == IF x = None \/ Strip(x) = <<>> THEN None ELSE Strip(x)

\* comparisons of floats; every comparison with nan is false
FloatLE(a, b) == ~a.nan /\ ~b.nan /\ a.num * b.den <= b.num * a.den
FloatGT(a, b) == ~a.nan /\ ~b.nan /\ a.num * b.den > b.num * a.den

\* the float of a whole number
Whole(n) == [ok |-> TRUE, nan |-> FALSE, num |-> n, den |-> 1]

\* x / 10.0
DivTen(a) == [a EXCEPT !.den = @ * 10]

\* the characters of the texts in use, by increasing code point
Ascii ==
    <<" ", "+", "-", ".", "/", "0", "1", "2", "3", "4", "5", "6", "7", "8",
      "9", ":", "=", "A", "B", "C", "D", "E", "F", "G", "H", "I", "J", "K",
      "L", "M", "N", "O", "P", "Q", "R", "S", "T", "U", "V", "W", "X", "Y",
      "Z", "[", "]", "a", "b", "c", "d", "e", "f", "g", "h", "i", "j", "k",
      "l", "m", "n", "o", "p", "q", "r", "s", "t", "u", "v", "w", "x", "y",
      "z", "|">>

Code(c) == CHOOSE i \in 1..Len(Ascii) : Ascii[i] = c

\* a < b for two str values: the first differing character decides, a proper
\* prefix is smaller
RECURSIVE TextLess(_, _)
TextLess(a, b) ==
    IF b = <<>> THEN FALSE
    ELSE IF a = <<>> THEN TRUE
    ELSE IF Head(a) = Head(b) THEN TextLess(Tail(a), Tail(b))
    ELSE Code(Head(a)) < Code(Head(b))

\* str(n) of a natural number and of an integer
RECURSIVE NatText(_)
NatText(n) ==
    IF n < 10 THEN <<Ascii[n + 6]>>
    ELSE Append(NatText(n \div 10), Ascii[(n % 10) + 6])

IntText(n) == IF n < 0 THEN <<"-">> \o NatText(0 - n) ELSE NatText(n)

\* a or b
Truthy(v) == v # None /\ v # <<>>
Or(a, b) == IF Truthy(a) THEN a ELSE b

\* ----------------------------- the normalizer ------------------------------
\* tanker_predicate (lines 381-395)
tanker_predicate(row) ==
    LET stype     == Txt(to_str(row.SHIPTYPE))
        type_name == Lower(Strip(Txt(row.TYPE_NAME)))
        type_img  == Txt(to_str(row.TYPE_IMG))
        gt_type   == Txt(to_str(row.GT_SHIPTYPE))
    IN  \/ StartsWith(Strip(stype), "8")
        \/ type_name = <<"t", "a", "n", "k", "e", "r">>
        \/ type_img = <<"8">>
        \/ gt_type = <<"1", "7">>

\* the result of derive_ts when the row is to be dropped
NoTs == [drop |-> TRUE, ts |-> 0]

\* derive_ts, lines 530-531: except Exception: return fetch_ts
MalformedAge(fetch) == [drop |-> FALSE, ts |-> fetch]

\* variant: the age is added to the fetch time
AgeAdded(fetch, em) == fetch + em

\* derive_ts, line 534: fetch_ts - timedelta(minutes=em), in minutes
AgeSubtracted(fetch, em) == fetch - em

\* derive_ts (lines 521-534)
derive_ts(fetch, elapsed_min_val) ==
    IF elapsed_min_val = None THEN [drop |-> FALSE, ts |-> fetch]
    ELSE LET em == ParseInt(Strip(elapsed_min_val))
         IN  IF ~em.ok THEN MalformedAge(fetch)
             ELSE IF em.num < 0 \/ em.num > DROP_IF_OBS_AGE_MIN THEN NoTs
             ELSE [drop |-> FALSE, ts |-> AgeSubtracted(fetch, em.num)]

\* variant: an empty set of boxes contains no point
NoBoxesClosed == FALSE

\* in_any_bbox, lines 484-485: if not AREA_BBOXES: return True
NoBoxes == TRUE

\* in_any_bbox (lines 483-489); a box is <<xmin, ymin, xmax, ymax>>
in_any_bbox(boxes, lon, lat) ==
    IF boxes = {} THEN NoBoxes
    ELSE \E b \in boxes :
            /\ FloatLE(Whole(b[1]), lon) /\ FloatLE(lon, Whole(b[3]))
            /\ FloatLE(Whole(b[2]), lat) /\ FloatLE(lat, Whole(b[4]))

SatName == <<"[", "S", "A", "T", "-", "A", "I", "S", "]">>

\* variant: only a long id with one of the tokens counts as opaque
LooksOpaqueByTokens(ship_id) ==
    /\ \E i \in 1..Len(ship_id) : ship_id[i] \in {"=", "/", "+"}
    /\ Len(ship_id) > 16

\* classify_src, line 376
LooksOpaque(ship_id) ==
    \/ /\ \E i \in 1..Len(ship_id) : ship_id[i] \in {"=", "/", "+"}
       /\ Len(ship_id) > 16
    \/ ~IsDigit(ship_id)

\* classify_src (lines 369-379)
classify_src(row) ==
    LET name    == Upper(Strip(Txt(Or(row.SHIPNAME, <<>>))))
        ship_id == Txt(Or(row.SHIP_ID, <<>>))
    IN  IF name = SatName \/ LooksOpaque(ship_id) THEN "sat" ELSE "terrestrial"

\* _norm (lines 361-367)
norm(v) ==
    IF v = None THEN <<>>
    ELSE LET t == Strip(v)
         IN  IF Lower(t) \in {<<"n", "a", "n">>, <<"n", "o", "n", "e">>,
                              <<"n", "u", "l", "l">>}
             THEN <<>>
             ELSE Upper(t)

\* "||".join(parts)
RECURSIVE Join(_)
Join(parts) ==
    IF Len(parts) = 0 THEN <<>>
    ELSE IF Len(parts) = 1 THEN parts[1]
    ELSE parts[1] \o <<"|", "|">> \o Join(Tail(parts))

\* variant: the position of the row is hashed with the other parts
SurrogateOfPosition(row) ==
    <<"h", ":">> \o Join(<<norm(row.SHIPNAME), norm(row.FLAG), norm(row.LAT)>>)

\* variant: a row with nothing to hash gets no identity
SurrogateOrNothing(row) ==
    IF \A f \in {"SHIPNAME", "FLAG", "LENGTH", "WIDTH", "SHIPTYPE", "TYPE_NAME"} :
           norm(row[f]) = <<>>
    THEN <<>>
    ELSE <<"h", ":">> \o Join(<<norm(row.SHIPNAME), norm(row.FLAG)>>)

\* the surrogate of lines 423-434: "h:" and the digest of the joined parts.
\* The digest is held as the text it was taken of: equal texts have equal
\* digests, and no two texts of the rows in use collide.
Surrogate(row) ==
    LET n0     == norm(row.SHIPNAME)
        name   == IF n0 \in {SatName, <<"U", "N", "K", "N", "O", "W", "N">>}
                  THEN <<>> ELSE n0
        flag   == norm(row.FLAG)
        length == norm(row.LENGTH)
        width  == norm(row.WIDTH)
        stype  == norm(Or(row.SHIPTYPE, row.TYPE_NAME))
    IN  <<"h", ":">> \o Join(<<name, flag, length, width, stype>>)

\* variant: the provider id is tried before the registry identifiers
make_vessel_uid_provider_first(row) ==
    LET ship_id == Strip(Txt(Or(row.SHIP_ID, <<>>)))
        mmsi    == Or(row.MMSI, row.mmsi)
    IN  IF ship_id # <<>> /\ IsDigit(ship_id)
        THEN <<"m", "t", "i", "d", ":">> \o ship_id
        ELSE IF Truthy(mmsi) /\ ParseInt(mmsi).ok
        THEN <<"m", "m", "s", "i", ":">> \o IntText(ParseInt(mmsi).num)
        ELSE Surrogate(row)

\* make_vessel_uid (lines 397-434)
make_vessel_uid(row) ==
    LET mmsi    == Or(row.MMSI, row.mmsi)
        imo     == Or(row.IMO, row.imo)
        ship_id == Strip(Txt(Or(row.SHIP_ID, <<>>)))
    IN  IF Truthy(mmsi) /\ ParseInt(mmsi).ok
        THEN <<"m", "m", "s", "i", ":">> \o IntText(ParseInt(mmsi).num)
        ELSE IF Truthy(imo) /\ ParseInt(imo).ok
        THEN <<"i", "m", "o", ":">> \o IntText(ParseInt(imo).num)
        ELSE IF ship_id # <<>>
        THEN IF IsDigit(ship_id)
             THEN <<"m", "t", "i", "d", ":">> \o ship_id
             ELSE <<"s", "a", "t", ":">> \o ship_id
        ELSE Surrogate(row)

\* the sog of a record whose row has no SPEED (None)
NoSog == NoParse

\* variant: no speed is rejected
SpeedRejectedNever(sog, cap) == FALSE

\* line 577: sog is not None and sog > MAX_TANKER_SOG_KN
SpeedRejected(sog, cap) == FloatGT(sog, Whole(cap))

\* variant: the range test of the coordinates is left out
CoordsInRangeAlways(lat, lon) == TRUE

\* line 561: -90.0 <= lat <= 90.0 and -180.0 <= lon <= 180.0
CoordsInRange(lat, lon) ==
    /\ FloatLE(Whole(0 - 90), lat) /\ FloatLE(lat, Whole(90))
    /\ FloatLE(Whole(0 - 180), lon) /\ FloatLE(lon, Whole(180))

\* variant: satellite rows are kept
SatDroppedNever(src) == FALSE

\* lines 570-572: if src == "sat": continue
SatDropped(src) == src = "sat"

\* one pass of the loop of normalize_rows_from_payload (lines 548-609): the
\* stage that dropped the row, or "emitted" and the record.  Of the columns
\* of the record those are kept that a stage computed; the others are the
\* row's values passed through _to_float, _to_int or _to_str.
NormalizeRow(r, fetch, boxes, cap) ==
    LET ts   == derive_ts(fetch, r.ELAPSED)
        lat  == to_float(r.LAT)
        lon  == to_float(r.LON)
        src  == classify_src(r)
        spd  == to_float(r.SPEED)
        sog  == IF spd.ok THEN DivTen(spd) ELSE NoSog
        drop == [stage \in {"type", "ts", "coords", "range", "prefilter", "sat",
                            "speed"} |-> [stage |-> stage]]
    IN  IF ~tanker_predicate(r) THEN drop["type"]
        ELSE IF ts.drop THEN drop["ts"]
        ELSE IF ~lat.ok \/ ~lon.ok THEN drop["coords"]
        ELSE IF ~CoordsInRange(lat, lon) THEN drop["range"]
        ELSE IF ENABLE_BBOX_PREFILTER /\ ~in_any_bbox(boxes, lon, lat)
        THEN drop["prefilter"]
        ELSE IF SatDropped(src) THEN drop["sat"]
        ELSE IF sog.ok /\ SpeedRejected(sog, cap) THEN drop["speed"]
        ELSE [stage |-> "emitted", ts |-> ts.ts, src |-> src,
              vessel_uid |-> make_vessel_uid(r), lat |-> lat, lon |-> lon,
              sog |-> sog, ship_id |-> to_str(r.SHIP_ID)]

\* variant: the records are ordered by vessel_uid alone
KeyLessByUid(a, b) == TextLess(a.vessel_uid, b.vessel_uid)

\* the sort key of line 612: (vessel_uid or "", ts)
KeyLess(a, b) ==
    \/ TextLess(a.vessel_uid, b.vessel_uid)
    \/ a.vessel_uid = b.vessel_uid /\ a.ts < b.ts

\* a record put into a sorted list behind every record that is not greater
RECURSIVE Insert(_, _)
Insert(sorted, rec) ==
    IF sorted = <<>> THEN <<rec>>
    ELSE IF KeyLess(rec, Head(sorted)) THEN <<rec>> \o sorted
    ELSE <<Head(sorted)>> \o Insert(Tail(sorted), rec)

\* list.sort with the key of line 612; the sort is stable
RECURSIVE Sort(_)
Sort(l) == IF l = <<>> THEN <<>> ELSE Insert(Sort(SubSeq(l, 1, Len(l) - 1)), l[Len(l)])

\* variant: a record is appended twice
AppendedTwice(rec) == <<rec, rec>>

\* line 609: out.append(rec)
Appended(rec) == <<rec>>

\* the records of the rows that no stage dropped, in the order of the rows
RECURSIVE Emitted(_)
Emitted(results) ==
    IF results = <<>> THEN <<>>
    ELSE IF Head(results).stage = "emitted"
    THEN Appended(Head(results)) \o Emitted(Tail(results))
    ELSE Emitted(Tail(results))

\* no raw rows are at hand and nothing was computed of them
NoRows ==
    /\ rows = <<>>
    /\ fetch_ts = 0
    /\ stages = <<>>
    /\ out = <<>>
    /\ normalized = FALSE
    /\ uids = <<>>
    /\ resolved = FALSE
    /\ handed = <<>>
    /\ chunks = <<>>
    /\ inserted = 0
    /\ persisted = FALSE

\* the per-cycle locals and records at the top of a cycle
NoAttempts == [i \in 1..tiles_per_cycle |-> 0]

\* main: except KeyboardInterrupt / finally: safe_quit(driver) with main's
\* own local, whatever session the loop holds; then the process ends
MainFinally(cause) ==
    /\ pc' = "Exit"
    /\ exitCause' = cause
    /\ live' = Quit(MainDriver, live)

\* ------------------------------ Init ---------------------------------------
InitLoop ==
    /\ pc = "Start"
    /\ NoCall
    /\ pauses = 0
    /\ received_total = 0
    /\ kept_total = 0
    /\ inserted_total = 0
    /\ normalizeCalls = 0
    /\ AREA_BBOXES = {}
    /\ kept_counts = <<>>
    /\ tile_iter = 0
    /\ tiles_this_cycle = <<>>
    /\ window = <<>>
    /\ cycles = 0
    /\ driver = NoSession
    /\ live = {}
    /\ idx = 0
    /\ failed_tiles = 0
    /\ attempts = NoAttempts
    /\ fetchedWith = {}
    /\ insertCalls = 0
    /\ refreshCalls = 0
    /\ summaries = 0
    /\ health = "Normal"
    /\ outcome = "None"
    /\ freshSession = NoSession
    /\ COOLDOWN_TIME = NoTime
    /\ slept = NoTime
    /\ cadenceWaited = "No"
    /\ driverCycles = 0
    /\ exitCause = "None"

\* the run of the program as configured in the source
Init ==
    /\ tiles_per_cycle = TILES_PER_CYCLE
    /\ cycles_per_driver = CYCLES_PER_DRIVER
    /\ cycle_limit = MaxCycles
    /\ total_tiles = TOTAL_TILES
    /\ max_retries = MAX_RETRIES
    /\ store_up = TRUE
    /\ max_rows = 1
    /\ max_dropped = 0
    /\ batch_size = BATCH_SIZE
    /\ store_boxes = StoreBBoxes
    /\ max_tanker_sog_kn = MAX_TANKER_SOG_KN
    /\ NoRows
    /\ InitLoop

\* runs under the other values of the two operating parameters
InitSmall ==
    /\ tiles_per_cycle \in 1..MaxTilesPerCycle
    /\ cycles_per_driver \in 1..MaxCyclesPerDriver
    /\ cycle_limit = MaxSmallCycles
    /\ total_tiles = TOTAL_TILES
    /\ max_retries = MAX_RETRIES
    /\ store_up = TRUE
    /\ max_rows = 1
    /\ max_dropped = 0
    /\ batch_size = BATCH_SIZE
    /\ store_boxes = StoreBBoxes
    /\ max_tanker_sog_kn = MAX_TANKER_SOG_KN
    /\ NoRows
    /\ InitLoop

\* runs under small tile lists (the empty one included), small batches, the
\* other values of max_retries, and a store that is down at startup
InitStart ==
    /\ tiles_per_cycle \in 1..MaxStartTiles
    /\ cycles_per_driver = MaxCyclesPerDriver
    /\ cycle_limit = MaxSmallCycles
    /\ total_tiles \in 0..MaxTotalTiles
    /\ max_retries \in 0..MaxRetries
    /\ store_up \in BOOLEAN
    /\ max_rows = 1
    /\ max_dropped = 0
    /\ batch_size = BATCH_SIZE
    /\ store_boxes = StoreBBoxes
    /\ max_tanker_sog_kn = MAX_TANKER_SOG_KN
    /\ NoRows
    /\ InitLoop

\* runs of a few short cycles whose payloads hold several rows, of which the
\* normalizer and the store's dedupe trigger may drop some or all
InitStats ==
    /\ tiles_per_cycle \in 1..MaxStatsTiles
    /\ cycles_per_driver = MaxCyclesPerDriver
    /\ cycle_limit = MaxStatsCycles
    /\ total_tiles = TOTAL_TILES
    /\ max_retries = MAX_RETRIES
    /\ store_up = TRUE
    /\ max_rows = MaxRows
    /\ max_dropped = MaxRows
    /\ batch_size = BATCH_SIZE
    /\ store_boxes = StoreBBoxes
    /\ max_tanker_sog_kn = MAX_TANKER_SOG_KN
    /\ NoRows
    /\ InitLoop

\* ------------------------- raw rows put to the normalizer -------------------
\* the time _utcnow() returns at line 546, in minutes
FetchTs == 100000

\* SHIPTYPE, TYPE_NAME, TYPE_IMG and GT_SHIPTYPE of a row: a tanker by its
\* type family, no tanker, a tanker by its type name, a tanker by GT_SHIPTYPE
TypeSignals ==
    {<<<<"8", "0">>, None, None, None>>,
     <<<<"7", "0">>, None, None, None>>,
     <<None, <<" ", "T", "a", "n", "k", "e", "r", " ">>, None, None>>,
     <<<<"7", "0">>, None, None, <<"1", "7">>>>}

\* ELAPSED: absent, not a number, negative, in range, the maximum, above it
Ages == {None, <<"x">>, <<"-", "1">>, <<"5">>, <<"7", "2", "0">>, <<"7", "2", "1">>}

\* LAT: absent, out of range, inside the boxes
Lats == {None, <<"9", "1">>, <<"5">>}

\* LON: out of range, on the edge of a box, between the boxes, inside a box
Lons == {<<"1", "8", "1">>, <<"1", "0">>, <<"1", "5">>, <<"2", "5">>}

\* SPEED in deciknots: absent, negative, the cap, above the cap, nan
Speeds == {None, <<"-", "5">>, <<"3", "5", "0">>, <<"3", "5", "1">>, <<"n", "a", "n">>}

\* SHIPNAME: the placeholder in another case and with blanks, a name
Names == {<<" ", "[", "s", "a", "t", "-", "a", "i", "s", "]", " ">>, <<"A", "B">>}

\* SHIP_ID: absent, numeric, opaque
ShipIds == {None, <<"1", "2">>, <<"a", "=">>}

Row(ty, e, la, lo, sp, nm, sid, mm, mm2, im, im2, fl) ==
    [SHIPTYPE |-> ty[1], TYPE_NAME |-> ty[2], TYPE_IMG |-> ty[3],
     GT_SHIPTYPE |-> ty[4], ELAPSED |-> e, LAT |-> la, LON |-> lo,
     SPEED |-> sp, SHIPNAME |-> nm, SHIP_ID |-> sid, MMSI |-> mm,
     mmsi |-> mm2, IMO |-> im, imo |-> im2, FLAG |-> fl, LENGTH |-> None,
     WIDTH |-> None]

\* the rows put to the normalizer one at a time
RawRows ==
    {Row(ty, e, la, lo, sp, nm, sid, mm, None, None, None, None) :
        ty \in TypeSignals, e \in Ages, la \in Lats, lo \in Lons,
        sp \in Speeds, nm \in Names, sid \in ShipIds,
        mm \in {<<"7">>}}

\* tanker rows with a valid position, age and speed and any identity fields:
\* each registry identifier absent, empty, a number or no number, the
\* provider id absent, blank, numeric or opaque
IdentityRows ==
    {Row(ty, <<"5">>, <<"5">>, <<"5">>, <<"1", "0", "0">>, nm, sid, mm, mm2, im, im2, fl) :
        ty \in {<<<<"8", "0">>, None, None, None>>,
                <<None, <<"T", "a", "n", "k", "e", "r">>, None, None>>},
        nm \in {None, <<"[", "S", "A", "T", "-", "A", "I", "S", "]">>, <<"a", "b">>},
        sid \in {None, <<" ">>, <<"1", "2">>, <<"a", "=">>},
        mm \in {None, <<>>, <<"7">>, <<"x">>},
        mm2 \in {None, <<"8">>},
        im \in {None, <<"9">>, <<"y">>},
        im2 \in {None, <<"6">>},
        fl \in {None, <<"g", "r">>}}

\* a row whose identity fields are all blank
BlankRow ==
    Row(<<None, None, None, None>>, <<"5">>, <<"5">>, <<"5">>, <<"1", "0", "0">>,
        <<" ">>, <<" ">>, <<>>, None, <<" ">>, None, <<" ">>)

\* rows put to the resolver two at a time: with or without a type, a name, a
\* provider id, an MMSI and a flag, at one of two positions; and the blank row
PairRows ==
    {Row(ty, <<"5">>, la, <<"5">>, <<"1", "0", "0">>, nm, sid, mm, None, None, None, fl) :
        ty \in {<<<<"8", "0">>, None, None, None>>, <<None, None, None, None>>},
        la \in {<<"5">>, <<"6">>},
        nm \in {None, <<"a", "b">>},
        sid \in {None, <<"1", "2">>},
        mm \in {None, <<"7">>},
        fl \in {None, <<"g", "r">>}}
    \cup {BlankRow}

\* the rows of the scenario: a row that is no tanker, a tanker row that is
\* 2000 minutes old, a valid tanker row with MMSI 7 at 400 deciknots, and a
\* valid tanker row without registry identifiers at 100 deciknots
OtherTypeRow ==
    Row(<<<<"7", "0">>, None, None, None>>, <<"5">>, <<"5">>, <<"5">>, <<"1", "0", "0">>,
        <<"A", "B">>, <<"1", "2">>, None, None, None, None, None)

StaleRow ==
    Row(<<<<"8", "0">>, None, None, None>>, <<"2", "0", "0", "0">>, <<"5">>, <<"5">>, <<"1", "0", "0">>,
        <<"A", "B">>, <<"1", "2">>, None, None, None, None, None)

FastRow ==
    Row(<<<<"8", "0">>, None, None, None>>, <<"5">>, <<"5">>, <<"5">>, <<"4", "0", "0">>,
        <<"A", "B">>, <<"1", "2">>, <<"7">>, None, None, None, None)

SlowRow ==
    Row(<<<<"8", "0">>, None, None, None>>, <<"0">>, <<"5">>, <<"5">>, <<"1", "0", "0">>,
        <<"A", "B">>, <<"1", "2">>, None, None, None, None, None)

\* the slow tanker as it was nine minutes before
OlderRow ==
    Row(<<<<"8", "0">>, None, None, None>>, <<"9">>, <<"5">>, <<"5">>, <<"1", "0", "0">>,
        <<"A", "B">>, <<"1", "2">>, None, None, None, None, None)

ScenarioRows == {OtherTypeRow, StaleRow, FastRow, SlowRow, OlderRow}

\* the program at startup with raw rows at hand
InitRows ==
    /\ tiles_per_cycle = TILES_PER_CYCLE
    /\ cycles_per_driver = CYCLES_PER_DRIVER
    /\ cycle_limit = MaxCycles
    /\ total_tiles = TOTAL_TILES
    /\ max_retries = MAX_RETRIES
    /\ max_rows = 1
    /\ max_dropped = 0
    /\ fetch_ts = FetchTs
    /\ stages = <<>>
    /\ out = <<>>
    /\ normalized = FALSE
    /\ uids = <<>>
    /\ resolved = FALSE
    /\ handed = <<>>
    /\ chunks = <<>>
    /\ inserted = 0
    /\ persisted = FALSE
    /\ InitLoop

\* one raw row of any shape; the store is up and holds boxes, or is up and
\* holds none, or is down
InitNorm ==
    /\ \E c \in {<<TRUE, StoreBBoxes>>, <<TRUE, {}>>, <<FALSE, StoreBBoxes>>} :
          store_up = c[1] /\ store_boxes = c[2]
    /\ max_tanker_sog_kn = MAX_TANKER_SOG_KN
    /\ batch_size = BATCH_SIZE
    /\ rows \in {<<r>> : r \in RawRows}
    /\ InitRows

\* one tanker row with any identity fields
InitUid ==
    /\ store_up = TRUE
    /\ store_boxes = StoreBBoxes
    /\ max_tanker_sog_kn = MAX_TANKER_SOG_KN
    /\ batch_size = BATCH_SIZE
    /\ rows \in {<<r>> : r \in IdentityRows}
    /\ InitRows

\* the rows a payload of this exploration holds: valid tanker rows alone when
\* no row is to be dropped, else the rows of the scenario
PayloadRows == IF max_dropped = 0 THEN {SlowRow} ELSE ScenarioRows

\* normalize_rows_from_payload (lines 536-613) on the rows b at the boxes
\* and the cap of this run
NormalizedBatch(b, boxes) ==
    Sort(Emitted([i \in 1..Len(b) |->
                     NormalizeRow(b[i], FetchTs, boxes, max_tanker_sog_kn)]))

\* len(batch) at line 734 for the payloads of n rows
KeptCounts(n, boxes) ==
    {Len(NormalizedBatch(b, boxes)) : b \in [1..n -> PayloadRows]}

\* two rows with any identity fields
InitPair ==
    /\ store_up = TRUE
    /\ store_boxes = StoreBBoxes
    /\ max_tanker_sog_kn = MAX_TANKER_SOG_KN
    /\ batch_size = BATCH_SIZE
    /\ rows \in {<<r1, r2>> : r1 \in PairRows, r2 \in PairRows}
    /\ InitRows

\* batches of the rows of the scenario under three speed caps and every
\* batch size up to MaxBatchSize
InitBatch ==
    /\ store_up = TRUE
    /\ store_boxes = StoreBBoxes
    /\ max_tanker_sog_kn \in {MAX_TANKER_SOG_KN, 40, 45}
    /\ batch_size \in 1..MaxBatchSize
    /\ rows \in UNION {[1..n -> ScenarioRows] : n \in 1..MaxBatch}
    /\ InitRows

\* normalize_rows_from_payload (lines 536-613) on the rows at hand, called
\* after load_area_bboxes has returned
NormalizeRows ==
    /\ pc # "Start"
    /\ ~normalized
    /\ LET results == [i \in 1..Len(rows) |->
                          NormalizeRow(rows[i], fetch_ts, AREA_BBOXES,
                                       max_tanker_sog_kn)]
       IN  /\ stages' = [i \in 1..Len(rows) |-> results[i].stage]
           /\ out' = Sort(Emitted(results))
    /\ normalized' = TRUE
    /\ UNCHANGED <<config, stats, AREA_BBOXES, kept_counts, sched, call, pauses, rows,
                   fetch_ts, uids, resolved, persister, pc, cycles, driver, live, idx,
                   failed_tiles, attempts, fetchedWith, insertCalls,
                   normalizeCalls, refreshCalls, summaries, health, outcome,
                   freshSession, COOLDOWN_TIME, slept, cadenceWaited,
                   driverCycles, exitCause>>

\* make_vessel_uid (lines 397-434) on each of the rows at hand
MakeVesselUid ==
    /\ ~resolved
    /\ uids' = [i \in 1..Len(rows) |-> make_vessel_uid(rows[i])]
    /\ resolved' = TRUE
    /\ UNCHANGED <<config, stats, AREA_BBOXES, kept_counts, sched, call, pauses, rows,
                   fetch_ts, stages, out, normalized, persister, pc, cycles, driver, live,
                   idx, failed_tiles, attempts, fetchedWith, insertCalls,
                   normalizeCalls, refreshCalls, summaries, health, outcome,
                   freshSession, COOLDOWN_TIME, slept, cadenceWaited,
                   driverCycles, exitCause>>

\* variant: the slice takes one record more
SliceEndOver(i, bs) == i + bs + 1

\* line 641: the slice rows[i:i+batch_size] ends before position i + batch_size
SliceEnd(i, bs) == i + bs

\* variant: the next chunk starts one record further on
NextStartSkips(i, bs) == i + bs + 1

\* line 640: range(0, len(rows), batch_size) steps by batch_size
NextStart(i, bs) == i + bs

\* lines 640-642: the chunks handed to executemany from position i on
\* (positions count from 0 as in the code)
RECURSIVE ChunksFrom(_, _, _)
ChunksFrom(l, i, bs) ==
    IF i >= Len(l) THEN <<>>
    ELSE <<SubSeq(l, i + 1, Min(SliceEnd(i, bs), Len(l)))>>
         \o ChunksFrom(l, NextStart(i, bs), bs)

\* line 644: the sum of the row counts the cursor reports, the dedupe
\* trigger having dropped drops[k] rows of chunk k
RECURSIVE RowCounts(_, _, _)
RowCounts(cs, drops, k) ==
    IF k = 0 THEN 0
    ELSE Max(0, Len(cs[k]) - drops[k]) + RowCounts(cs, drops, k - 1)

\* lines 733-736: insert_fixes (lines 630-646) called with the list
\* normalize_rows_from_payload returned
InsertFixes ==
    /\ normalized
    /\ ~persisted
    /\ handed' = out
    /\ LET cs == IF out = <<>> THEN <<>> ELSE ChunksFrom(out, 0, batch_size)
       IN  /\ chunks' = cs
           /\ \E drops \in [1..Len(cs) -> 0..max_dropped] :
                 inserted' = RowCounts(cs, drops, Len(cs))
    /\ persisted' = TRUE
    /\ UNCHANGED <<config, stats, AREA_BBOXES, kept_counts, sched, call, pauses, rows,
                   fetch_ts, stages, out, normalized, uids, resolved, pc,
                   cycles, driver, live, idx, failed_tiles, attempts,
                   fetchedWith, insertCalls, normalizeCalls, refreshCalls,
                   summaries, health, outcome, freshSession, COOLDOWN_TIME,
                   slept, cadenceWaited, driverCycles, exitCause>>

\* ------------------------------ main: startup ------------------------------
\* variant: the failed load is not caught and ends the run
BboxLoadFailedFatal ==
    /\ AREA_BBOXES' = {}
    /\ pc' = "Exit"
    /\ exitCause' = "store"

\* load_area_bboxes, lines 479-481: the exception of the failed connection
\* or query is logged, AREA_BBOXES = [] and the function returns
BboxLoadFailed ==
    /\ AREA_BBOXES' = {}
    /\ pc' = "OpenDriver"
    /\ exitCause' = exitCause

\* line 661, load_area_bboxes (456-481)
LoadAreaBboxes ==
    /\ pc = "Start"
    /\ IF ~ENABLE_BBOX_PREFILTER
       THEN /\ pc' = "OpenDriver"
            /\ UNCHANGED <<AREA_BBOXES, exitCause>>
       ELSE IF store_up
            THEN /\ AREA_BBOXES' = store_boxes
                 /\ pc' = "OpenDriver"
                 /\ exitCause' = exitCause
            ELSE BboxLoadFailed
    /\ kept_counts' = [n \in 1..max_rows |-> KeptCounts(n, AREA_BBOXES')]
    /\ UNCHANGED <<config, normalizer, stats, sched, call, pauses, cycles, driver, live, idx, failed_tiles,
                   attempts, fetchedWith, insertCalls, normalizeCalls, refreshCalls, summaries,
                   health, outcome, freshSession, COOLDOWN_TIME, slept,
                   cadenceWaited, driverCycles>>

\* line 663: driver = open_driver(...)
OpenDriver ==
    /\ pc = "OpenDriver"
    /\ driver' = MainDriver
    /\ live' = live \cup {MainDriver}
    /\ pc' = "BuildTiles"
    /\ UNCHANGED <<config, normalizer, stats, AREA_BBOXES, kept_counts, sched, call, pauses, cycles, idx, failed_tiles,
                   attempts, fetchedWith, insertCalls, normalizeCalls, refreshCalls, summaries,
                   health, outcome, freshSession, COOLDOWN_TIME, slept,
                   cadenceWaited, driverCycles, exitCause>>

\* line 664, build_tile_cycle (330-340): the ValueError of an empty list is
\* raised before main's try statement, so no finally clause runs for it
BuildTileCycle ==
    /\ pc = "BuildTiles"
    /\ IF TilesEmpty(total_tiles)
       THEN /\ pc' = "Exit"
            /\ exitCause' = "config"
       ELSE /\ pc' = "LoopTop"
            /\ exitCause' = exitCause
    /\ UNCHANGED <<config, normalizer, stats, AREA_BBOXES, kept_counts, sched, call, pauses, cycles, driver, live, idx,
                   failed_tiles, attempts, fetchedWith, insertCalls, normalizeCalls,
                   refreshCalls, summaries, health, outcome, freshSession,
                   COOLDOWN_TIME, slept, cadenceWaited, driverCycles>>

\* a KeyboardInterrupt raised before main's try statement ends the process
\* and no finally clause runs
CancelAtStartup ==
    /\ pc \in {"Start", "OpenDriver", "BuildTiles"}
    /\ pc' = "Exit"
    /\ exitCause' = "startup-cancel"
    /\ UNCHANGED <<config, normalizer, stats, AREA_BBOXES, kept_counts, sched, call, pauses, cycles, driver, live, idx,
                   failed_tiles, attempts, fetchedWith, insertCalls, normalizeCalls,
                   refreshCalls, summaries, health, outcome, freshSession,
                   COOLDOWN_TIME, slept, cadenceWaited, driverCycles>>

\* ------------------------------ _run_loop ----------------------------------
\* lines 694-706: top of the while loop: the totals of the cycle start at
\* zero (697-699); the periodic recycle quits the session the loop holds
LoopTop ==
    /\ pc = "LoopTop"
    /\ cycles < cycle_limit
    /\ IF AgeRecycleDue(cycles, cycles_per_driver)
       THEN /\ live' = Quit(driver, live)
            /\ pc' = "AgeOpen"
       ELSE /\ live' = live
            /\ pc' = "Pull"
    /\ received_total' = 0
    /\ kept_total' = 0
    /\ inserted_total' = 0
    /\ UNCHANGED <<config, normalizer, AREA_BBOXES, kept_counts, sched, call, pauses, cycles, driver, idx, failed_tiles, attempts,
                   fetchedWith, insertCalls, normalizeCalls, refreshCalls, summaries, health,
                   outcome, freshSession, COOLDOWN_TIME, slept, cadenceWaited,
                   driverCycles, exitCause>>

\* line 707: driver = open_driver(...)
AgeOpen ==
    /\ pc = "AgeOpen"
    /\ driver' = <<cycles, "age">>
    /\ live' = live \cup {driver'}
    /\ driverCycles' = 0
    /\ pc' = "Pull"
    /\ UNCHANGED <<config, normalizer, stats, AREA_BBOXES, kept_counts, sched, call, pauses, cycles, idx, failed_tiles, attempts, fetchedWith,
                   insertCalls, normalizeCalls, refreshCalls, summaries, health, outcome,
                   freshSession, COOLDOWN_TIME, slept, cadenceWaited, exitCause>>

\* lines 711-719: the next batch is pulled and shuffled, the cycle's counters
\* start at zero.  itertools.cycle over an empty list yields nothing: the
\* batch is then empty and lines 713-716 count the cycle and continue.
PullBatch ==
    /\ pc = "Pull"
    /\ idx' = 0
    /\ failed_tiles' = 0
    /\ attempts' = NoAttempts
    /\ fetchedWith' = {}
    /\ insertCalls' = 0
    /\ normalizeCalls' = 0
    /\ refreshCalls' = 0
    /\ summaries' = 0
    /\ outcome' = "None"
    /\ cadenceWaited' = "No"
    /\ tiles_this_cycle' = IF total_tiles = 0 THEN <<>>
                           ELSE PulledBatch(tile_iter, tiles_per_cycle, total_tiles)
    /\ IF BatchLen(tiles_this_cycle') = 0
       THEN /\ cycles' = cycles + 1
            /\ pc' = "LoopTop"
            /\ UNCHANGED <<tile_iter, window>>
       ELSE /\ tile_iter' = Advance(tile_iter, tiles_per_cycle, total_tiles)
            /\ window' = Slide(window, {p \in 0..(total_tiles - 1) :
                                           tiles_this_cycle'[p] > 0})
            /\ cycles' = cycles
            /\ pc' = "Tiles"
    /\ pauses' = 0
    /\ UNCHANGED <<config, normalizer, stats, AREA_BBOXES, kept_counts, call, driver, live, health, freshSession,
                   COOLDOWN_TIME, slept, driverCycles, exitCause>>

\* variant: a failed tile ends the tile loop (break instead of continue)
TileFailedBreak ==
    /\ failed_tiles' = failed_tiles + 1
    /\ idx' = BatchLen(tiles_this_cycle)
    /\ pc' = "Tiles"

\* what the loop does with a tile whose payload is not ok (lines 726-728):
\* failed_tiles += 1 ; continue
TileFailed ==
    /\ failed_tiles' = failed_tiles + 1
    /\ idx' = idx + 1
    /\ pc' = "Tiles"

\* line 724 and fetch_with_backoff (492-518): one pass of its while loop.
\* From "Tiles" the call starts with attempt = 0; from "Backoff" the loop
\* is back at its top after a backoff sleep.  fetch_once returns any kind of
\* payload.  Success returns it; a failure with the retries exhausted sleeps
\* the pacing pause and returns it; any other failure sleeps the backoff,
\* adds one to attempt and goes round the loop.
FetchTile ==
    /\ pc \in {"Tiles", "Backoff"}
    /\ pc = "Tiles" => idx < BatchLen(tiles_this_cycle)
    /\ attempts' = IF pc = "Tiles" THEN [attempts EXCEPT ![idx + 1] = @ + 1]
                   ELSE attempts
    /\ fetchedWith' = fetchedWith \cup {FetchSession}
    /\ driverCycles' = IF pc = "Tiles" /\ idx = 0 THEN driverCycles + 1
                       ELSE driverCycles
    /\ LET a  == IF pc = "Tiles" THEN 0 ELSE attempt
           f  == IF pc = "Tiles" THEN 0 ELSE fetches
           ff == IF pc = "Tiles" THEN 0 ELSE failedFetches
           ev == IF pc = "Tiles" THEN 0 ELSE events
           bo == IF pc = "Tiles" THEN <<>> ELSE backoffs
       IN  \E p \in PayloadKinds :
             /\ payload' = p
             /\ payload_rows' \in (IF p = "Rows" THEN 1..max_rows ELSE {0})
             /\ fetches' = f + 1
             /\ IF PayloadOk(p)
                THEN /\ events' = ev + SuccessEvents(a)
                     /\ failedFetches' = ff
                     /\ attempt' = a
                     /\ backoffs' = bo
                     /\ pauses' = pauses
                     /\ returnedVia' = "Success"
                     /\ pc' = "Returned"
                ELSE IF Exhausted(a, max_retries)
                THEN /\ events' = ev + 1
                     /\ failedFetches' = ff + 1
                     /\ attempt' = a
                     /\ backoffs' = bo
                     /\ pauses' = ExhaustedPause(pauses)
                     /\ returnedVia' = "Exhausted"
                     /\ pc' = "Returned"
                ELSE /\ events' = ev + 1
                     /\ failedFetches' = ff + 1
                     /\ attempt' = a + 1
                     /\ backoffs' = Append(bo, BackoffSleep(a))
                     /\ pauses' = pauses
                     /\ returnedVia' = "None"
                     /\ pc' = "Backoff"
    /\ UNCHANGED <<config, normalizer, stats, AREA_BBOXES, kept_counts, sched, cycles, driver, live, idx,
                   failed_tiles, insertCalls, normalizeCalls, refreshCalls, summaries, health,
                   outcome, freshSession, COOLDOWN_TIME, slept, cadenceWaited,
                   exitCause>>

\* variant: the rows of a failed tile are counted as received
SkipTileCounted ==
    /\ received_total' = received_total + 1
    /\ UNCHANGED <<kept_total, inserted_total, normalizeCalls, insertCalls>>

\* line 728: continue; lines 730-747 are not run for the tile
SkipTile ==
    UNCHANGED <<received_total, kept_total, inserted_total, normalizeCalls,
                insertCalls>>

\* lines 725-728: the returned payload is judged; a payload that is not ok
\* counts the tile as failed and the loop goes to the next tile
CheckPayload ==
    /\ pc = "Returned"
    /\ IF PayloadOk(payload)
       THEN /\ pc' = "Persist"
            /\ UNCHANGED <<idx, failed_tiles, call, stats, normalizeCalls,
                           insertCalls>>
       ELSE /\ TileFailed
            /\ EndCall
            /\ SkipTile
    /\ UNCHANGED <<config, normalizer, AREA_BBOXES, kept_counts, sched, pauses, cycles, driver, live,
                   attempts, fetchedWith, refreshCalls, summaries,
                   health, outcome, freshSession, COOLDOWN_TIME, slept,
                   cadenceWaited, driverCycles, exitCause>>

\* variant: the failing insert_fixes call is issued a second time before
\* the failure propagates
InsertRaisedRetried ==
    /\ insertCalls' = insertCalls + 2
    /\ MainFinally("persist")
    /\ UNCHANGED <<idx, call, pauses>>

\* insert_fixes raising inside _run_loop (line 735): nothing catches it in
\* _run_loop, main's finally clause runs and the exception ends the process
InsertRaised ==
    /\ insertCalls' = insertCalls + 1
    /\ MainFinally("persist")
    /\ UNCHANGED <<idx, call, pauses>>

\* lines 730-747: the rows are counted and normalized, the batch is counted
\* and handed to insert_fixes, its result is counted, then the pacing pause.
\* The batch is what the normalizer returns for the rows.  insert_fixes returns 0
\* without touching the store when the batch is empty (635-636), so it can
\* raise only for a non-empty batch; what it returns is the store's rowcount,
\* which leaves out the rows the dedupe trigger dropped.
PersistTile ==
    /\ pc = "Persist"
    /\ received_total' = received_total + payload_rows
    /\ normalizeCalls' = normalizeCalls + 1
    /\ \E kept \in kept_counts[payload_rows], raises \in BOOLEAN :
          /\ kept_total' = kept_total + kept
          /\ IF kept > 0 /\ raises
             THEN /\ InsertRaised
                  /\ inserted_total' = inserted_total
             ELSE /\ insertCalls' = insertCalls + 1
                  /\ \E ins \in Max(0, kept - max_dropped)..kept :
                        inserted_total' = inserted_total + ins
                  /\ idx' = idx + 1
                  /\ pauses' = pauses + 1
                  /\ EndCall
                  /\ pc' = "Tiles"
                  /\ UNCHANGED <<live, exitCause>>
    /\ UNCHANGED <<config, normalizer, AREA_BBOXES, kept_counts, sched, cycles, driver, failed_tiles,
                   attempts, fetchedWith, refreshCalls, summaries, health,
                   outcome, freshSession, COOLDOWN_TIME, slept, cadenceWaited,
                   driverCycles>>

\* refresh_all raising (line 753; maintenance.py 9-51 has no handler and
\* neither has _run_loop): main's finally clause runs, the process ends
RefreshRaised ==
    MainFinally("refresh") /\ UNCHANGED summaries

\* lines 749-761: cycles += 1, refresh_all, cycle summary
FinishCycle ==
    /\ pc = "Tiles"
    /\ idx = BatchLen(tiles_this_cycle)
    /\ cycles' = cycles + 1
    /\ refreshCalls' = refreshCalls + 1
    /\ \E raises \in BOOLEAN :
          IF raises
          THEN RefreshRaised
          ELSE /\ summaries' = summaries + 1
               /\ pc' = "Health"
               /\ UNCHANGED <<live, exitCause>>
    /\ freshSession' = NoSession
    /\ UNCHANGED <<config, normalizer, stats, AREA_BBOXES, kept_counts, sched, call, pauses, driver, idx, failed_tiles, attempts, fetchedWith,
                   insertCalls, normalizeCalls, health, outcome, COOLDOWN_TIME, slept,
                   cadenceWaited, driverCycles>>

\* lines 764-779: the jitter is drawn, the ratio computed and the branch
\* chosen; the Recycling branch quits the session before it sleeps
EvaluateHealth ==
    /\ pc = "Health"
    /\ \E jitter \in 0..Min(MaxJitterDraw, COOLDOWN_JITTER) :
          COOLDOWN_TIME' = COOLDOWN_SECONDS + jitter
    /\ outcome' = HealthOutcome(failed_tiles, tiles_per_cycle)
    /\ health' = outcome'
    /\ IF outcome' = "Recycling"
       THEN /\ live' = Quit(driver, live)
            /\ pc' = "RecycleSleep"
       ELSE /\ live' = live
            /\ pc' = IF outcome' = "Cooldown" THEN "CooldownSleep" ELSE "Cadence"
    /\ UNCHANGED <<config, normalizer, stats, AREA_BBOXES, kept_counts, sched, call, pauses, cycles, driver, idx, failed_tiles, attempts,
                   fetchedWith, insertCalls, normalizeCalls, refreshCalls, summaries,
                   freshSession, slept, cadenceWaited, driverCycles, exitCause>>

\* lines 780-781: if COOLDOWN_TIME > 0: time.sleep(COOLDOWN_TIME)
RecycleSleep ==
    /\ pc = "RecycleSleep"
    /\ slept' = IF COOLDOWN_TIME > 0 THEN COOLDOWN_TIME ELSE 0
    /\ pc' = "RecycleOpen"
    /\ UNCHANGED <<config, normalizer, stats, AREA_BBOXES, kept_counts, sched, call, pauses, cycles, driver, live, idx, failed_tiles, attempts,
                   fetchedWith, insertCalls, normalizeCalls, refreshCalls, summaries, health,
                   outcome, freshSession, COOLDOWN_TIME, cadenceWaited,
                   driverCycles, exitCause>>

\* variant: the recycle branch ends the loop after its sleep (break instead
\* of open_driver and continue); main's finally clause runs
RecycleOpenBreak ==
    /\ pc = "RecycleOpen"
    /\ MainFinally("degraded")
    /\ UNCHANGED <<config, normalizer, stats, AREA_BBOXES, kept_counts, sched, call, pauses, cycles, driver,
                   idx, failed_tiles, attempts, fetchedWith, insertCalls, normalizeCalls,
                   refreshCalls, summaries, health, outcome, freshSession,
                   COOLDOWN_TIME, slept, cadenceWaited, driverCycles>>

\* variant: the failure recycle starts the count of cycles anew
RecycleOpenResets ==
    /\ pc = "RecycleOpen"
    /\ driver' = <<cycles, "fail">>
    /\ live' = live \cup {driver'}
    /\ driverCycles' = 0
    /\ freshSession' = driver'
    /\ health' = "Normal"
    /\ COOLDOWN_TIME' = NoTime
    /\ slept' = NoTime
    /\ cycles' = 0
    /\ pc' = "LoopTop"
    /\ UNCHANGED <<config, normalizer, stats, AREA_BBOXES, kept_counts, sched, call, pauses, idx,
                   failed_tiles, attempts, fetchedWith, insertCalls, normalizeCalls,
                   refreshCalls, summaries, outcome, cadenceWaited, exitCause>>

\* lines 782-784: driver = open_driver(...) ; continue
RecycleOpen ==
    /\ pc = "RecycleOpen"
    /\ driver' = <<cycles, "fail">>
    /\ live' = live \cup {driver'}
    /\ driverCycles' = 0
    /\ freshSession' = driver'
    /\ health' = "Normal"
    /\ COOLDOWN_TIME' = NoTime
    /\ slept' = NoTime
    /\ pc' = "LoopTop"
    /\ UNCHANGED <<config, normalizer, stats, AREA_BBOXES, kept_counts, sched, call, pauses, cycles, idx, failed_tiles, attempts, fetchedWith,
                   insertCalls, normalizeCalls, refreshCalls, summaries, outcome,
                   cadenceWaited, exitCause>>

\* variant: the cooldown branch ends with continue, as the recycle branch
CooldownSleepContinue ==
    /\ pc = "CooldownSleep"
    /\ slept' = COOLDOWN_SECONDS
    /\ health' = "Normal"
    /\ pc' = "LoopTop"
    /\ UNCHANGED <<config, normalizer, stats, AREA_BBOXES, kept_counts, sched, call, pauses, cycles, driver, live, idx, failed_tiles, attempts,
                   fetchedWith, insertCalls, normalizeCalls, refreshCalls, summaries, outcome,
                   freshSession, COOLDOWN_TIME, cadenceWaited, driverCycles,
                   exitCause>>

\* lines 786-792: the cooldown is reported with COOLDOWN_TIME and the loop
\* sleeps time.sleep(COOLDOWN_SECONDS)
CooldownSleep ==
    /\ pc = "CooldownSleep"
    /\ slept' = COOLDOWN_SECONDS
    /\ health' = "Normal"
    /\ pc' = "Cadence"
    /\ UNCHANGED <<config, normalizer, stats, AREA_BBOXES, kept_counts, sched, call, pauses, cycles, driver, live, idx, failed_tiles, attempts,
                   fetchedWith, insertCalls, normalizeCalls, refreshCalls, summaries, outcome,
                   freshSession, COOLDOWN_TIME, cadenceWaited, driverCycles,
                   exitCause>>

\* lines 795-810: sleep_for = max(0, max(0, INTERVAL_SECONDS - elapsed) +
\* jitter) is computed and, if positive, counted down; the elapsed time is
\* not modelled, so both cases can follow any cycle
CadenceWait ==
    /\ pc = "Cadence"
    /\ \E positive \in BOOLEAN :
          cadenceWaited' = IF positive THEN "Slept" ELSE "Zero"
    /\ COOLDOWN_TIME' = NoTime
    /\ slept' = NoTime
    /\ pc' = "LoopTop"
    /\ UNCHANGED <<config, normalizer, stats, AREA_BBOXES, kept_counts, sched, call, pauses, cycles, driver, live, idx, failed_tiles, attempts,
                   fetchedWith, insertCalls, normalizeCalls, refreshCalls, summaries, health,
                   outcome, freshSession, driverCycles, exitCause>>

\* ------------------------------ main ---------------------------------------
\* variant: the KeyboardInterrupt is swallowed inside the loop, which goes on
CancelSwallowed ==
    /\ pc \notin {"Start", "OpenDriver", "BuildTiles", "Exit"}
    /\ exitCause = "None"
    /\ exitCause' = "cancel"
    /\ UNCHANGED <<config, normalizer, stats, AREA_BBOXES, kept_counts, sched, call, pauses, pc, cycles, driver, live, idx, failed_tiles,
                   attempts, fetchedWith, insertCalls, normalizeCalls, refreshCalls, summaries,
                   health, outcome, freshSession, COOLDOWN_TIME, slept,
                   cadenceWaited, driverCycles>>

\* lines 677-685: a KeyboardInterrupt raised anywhere in _run_loop leaves
\* the loop, is swallowed by main and main's finally clause runs
Cancel ==
    /\ pc \notin {"Start", "OpenDriver", "BuildTiles", "Exit"}
    /\ MainFinally("cancel")
    /\ UNCHANGED <<config, normalizer, stats, AREA_BBOXES, kept_counts, sched, call, pauses, cycles, driver, idx, failed_tiles, attempts,
                   fetchedWith, insertCalls, normalizeCalls, refreshCalls, summaries, health,
                   outcome, freshSession, COOLDOWN_TIME, slept, cadenceWaited,
                   driverCycles>>

Next ==
    \/ LoadAreaBboxes
    \/ OpenDriver
    \/ BuildTileCycle
    \/ CancelAtStartup
    \/ LoopTop
    \/ AgeOpen
    \/ PullBatch
    \/ FetchTile
    \/ CheckPayload
    \/ PersistTile
    \/ FinishCycle
    \/ EvaluateHealth
    \/ RecycleSleep
    \/ RecycleOpen
    \/ CooldownSleep
    \/ CadenceWait
    \/ Cancel

\* the program as configured in the source
Spec == Init /\ [][Next]_vars

\* the program under the other values of tiles-per-cycle and
\* cycles-per-session
SpecSmall == InitSmall /\ [][Next]_vars

\* the program under small tile lists, retries and a store down at startup
SpecStart == InitStart /\ [][Next]_vars

\* the program under payloads of several rows
SpecStats == InitStats /\ [][Next]_vars

\* the steps that bring raw rows through the normalizer and the resolver
NextRows ==
    \/ LoadAreaBboxes
    \/ NormalizeRows
    \/ MakeVesselUid
    \/ InsertFixes

\* the normalizer on one raw row of any shape
SpecNorm == InitNorm /\ [][NextRows]_vars

\* the resolver and the normalizer on one row with any identity fields
SpecUid == InitUid /\ [][NextRows]_vars

\* the resolver and the normalizer on two rows
SpecPair == InitPair /\ [][NextRows]_vars

\* the normalizer on batches of the rows of the scenario
SpecBatch == InitBatch /\ [][NextRows]_vars

\* the steps of the program itself: every step but a KeyboardInterrupt
NextLoop ==
    \/ LoadAreaBboxes
    \/ OpenDriver
    \/ BuildTileCycle
    \/ LoopTop
    \/ AgeOpen
    \/ PullBatch
    \/ FetchTile
    \/ CheckPayload
    \/ PersistTile
    \/ FinishCycle
    \/ EvaluateHealth
    \/ RecycleSleep
    \/ RecycleOpen
    \/ CooldownSleep
    \/ CadenceWait

\* the program runs on: main is one thread of straight-line code whose calls
\* and sleeps return, so a step of the program that can be taken is taken;
\* nothing makes a KeyboardInterrupt arrive
SpecLive == InitSmall /\ [][Next]_vars /\ WF_vars(NextLoop)

TypeOK ==
    /\ max_rows \in Nat
    /\ max_dropped \in Nat
    /\ payload_rows \in 0..max_rows
    /\ received_total \in 0..(tiles_per_cycle * max_rows)
    /\ kept_total \in 0..received_total
    /\ inserted_total \in 0..kept_total
    /\ normalizeCalls \in 0..tiles_per_cycle
    /\ total_tiles \in Nat
    /\ max_retries \in Nat
    /\ store_up \in BOOLEAN
    /\ AREA_BBOXES \in {{}, StoreBBoxes}
    /\ DOMAIN kept_counts \in {{}, 1..max_rows}
    /\ store_boxes \in {{}, StoreBBoxes}
    /\ normalized \in BOOLEAN
    /\ resolved \in BOOLEAN
    /\ Len(stages) \in {0, Len(rows)}
    /\ Len(out) <= Len(rows)
    /\ Len(uids) \in {0, Len(rows)}
    /\ batch_size \in Nat \ {0}
    /\ persisted \in BOOLEAN
    /\ Len(handed) <= Len(rows)
    /\ Len(chunks) <= Len(handed)
    /\ inserted \in 0..Len(handed)
    /\ tile_iter \in 0..Max(0, total_tiles - 1)
    /\ DOMAIN tiles_this_cycle \in {{}, 0..(total_tiles - 1)}
    /\ Len(window) <= WindowLen
    /\ payload \in PayloadKinds \cup {"NoPayload"}
    /\ attempt \in 0..max_retries
    /\ fetches \in 0..(max_retries + 1)
    /\ failedFetches \in 0..fetches
    /\ events \in 0..fetches
    /\ Len(backoffs) <= max_retries
    /\ returnedVia \in {"None", "Success", "Exhausted"}
    /\ pauses \in 0..tiles_per_cycle
    /\ pc \in {"Tiles", "Pull", "LoopTop", "Health"} => NoCall
    /\ pc \in {"Start", "OpenDriver", "BuildTiles",
               "LoopTop", "AgeOpen", "Pull", "Tiles", "Backoff", "Returned",
               "Persist", "Health",
               "RecycleSleep", "RecycleOpen", "CooldownSleep", "Cadence", "Exit"}
    /\ cycles \in 0..cycle_limit
    /\ idx \in 0..tiles_per_cycle
    /\ failed_tiles \in 0..tiles_per_cycle
    /\ health \in {"Normal", "Cooldown", "Recycling"}
    /\ outcome \in {"None", "Normal", "Cooldown", "Recycling"}
    /\ exitCause \in {"None", "cancel", "persist", "refresh", "config",
                      "startup-cancel"}
    /\ cadenceWaited \in {"No", "Zero", "Slept"}

\* ------------------------------ Properties ---------------------------------
InCycle == pc \in {"Tiles", "Backoff", "Returned", "Persist"}
AfterHealth == pc \in {"RecycleSleep", "RecycleOpen", "CooldownSleep", "Cadence"}
CooldownTimes == COOLDOWN_SECONDS..(COOLDOWN_SECONDS + COOLDOWN_JITTER)

\* C1: when the run ends on a cancellation, no session opened by the run is
\* still open (the session the loop held was torn down), also after recycles
C1_CancelReleasesSession ==
    (pc = "Exit" /\ exitCause = "cancel") => live = {}

\* C2: once a cancellation was observed no tile is fetched, no insert_fixes
\* and no refresh_all is issued, the in-flight cycle makes no progress and no
\* later cycle starts
C2_NoWorkAfterCancel ==
    [][exitCause = "cancel" =>
         /\ pc' = "Exit"
         /\ attempts' = attempts
         /\ insertCalls' = insertCalls
         /\ refreshCalls' = refreshCalls
         /\ idx' = idx
         /\ cycles' = cycles]_vars

\* a cancellation observed in the middle of a cycle, tiles remaining
C2_Witness ==
    /\ pc = "Exit"
    /\ exitCause = "cancel"
    /\ 0 < idx
    /\ idx < tiles_per_cycle

\* C3: the health outcome of a completed cycle is decided by failed_tiles /
\* tiles alone: below 0.4 Normal and no health sleep, from 0.4 and below 0.6
\* Cooldown, from 0.6 Recycling; 5 of 10 gives Cooldown, 7 of 10 Recycling
C3_HealthByRatio ==
    outcome # "None" =>
        /\ (10 * failed_tiles < 4 * tiles_per_cycle) <=> (outcome = "Normal")
        /\ (/\ 4 * tiles_per_cycle <= 10 * failed_tiles
            /\ 10 * failed_tiles < 6 * tiles_per_cycle) <=> (outcome = "Cooldown")
        /\ (10 * failed_tiles >= 6 * tiles_per_cycle) <=> (outcome = "Recycling")
        /\ (outcome = "Normal" /\ pc = "Cadence") => slept = NoTime
        /\ (tiles_per_cycle = 10 /\ failed_tiles = 5) => outcome = "Cooldown"
        /\ (tiles_per_cycle = 10 /\ failed_tiles = 7) => outcome = "Recycling"

\* a cycle that ended exactly on the cooldown threshold
C3_Witness ==
    /\ 10 * failed_tiles = 4 * tiles_per_cycle
    /\ outcome = "Cooldown"
    /\ pc = "CooldownSleep"

\* C4: after the cooldown of a cycle that ended in Cooldown, the loop has
\* slept the reported COOLDOWN_SECONDS + jitter, the session is the one the
\* cycle fetched with and is still live, and the state is Normal again
C4_CooldownSleepsReported ==
    (pc = "Cadence" /\ outcome = "Cooldown") =>
        /\ COOLDOWN_TIME \in CooldownTimes
        /\ slept = COOLDOWN_TIME
        /\ fetchedWith = {driver}
        /\ driver \in live
        /\ health = "Normal"

\* the order of the steps of a failure recycle
RecycleOrder ==
    /\ pc = "RecycleSleep" => (live = {} /\ slept = NoTime /\ health = "Recycling")
    /\ pc = "RecycleOpen" =>
          /\ live = {}
          /\ COOLDOWN_TIME \in CooldownTimes
          /\ slept = COOLDOWN_TIME
          /\ health = "Recycling"
    /\ freshSession # NoSession =>
          /\ freshSession = <<cycles, "fail">>
          /\ pc \in {"LoopTop", "AgeOpen", "Pull", "Tiles", "Backoff", "Returned",
                     "Persist", "Exit"}
          /\ pc # "Exit" => health = "Normal"
          /\ pc \in {"LoopTop", "Pull"} => live = {driver}

\* C5 as stated: quit, sleep with no session live, open, Normal, and every
\* fetch of the next cycle uses the session the recycle opened
C5_NextCycleUsesFresh ==
    /\ RecycleOrder
    /\ (InCycle /\ freshSession # NoSession) => fetchedWith \subseteq {freshSession}

\* C5: quit, sleep with no session live, open, Normal; every fetch of the
\* next cycle uses the session the recycle opened unless the count of
\* completed cycles is a positive multiple of cycles-per-session, and then
\* every fetch uses the session opened by the age recycle of that cycle
C5_RecycleOrderAndNextSession ==
    /\ RecycleOrder
    /\ (InCycle /\ freshSession # NoSession) =>
          fetchedWith \subseteq
             {IF cycles % cycles_per_driver = 0
              THEN <<cycles, "age">>
              ELSE freshSession}

\* a tile of the next cycle was fetched with the session a recycle opened
C5_Witness ==
    /\ InCycle
    /\ freshSession # NoSession
    /\ fetchedWith = {freshSession}
    /\ driver = freshSession

\* C6: the session is replaced at the start of every cycle whose index is a
\* positive multiple of cycles-per-session, and no session serves fetches in
\* more than cycles-per-session cycles
C6_SessionAgeBounded ==
    /\ driverCycles <= cycles_per_driver
    /\ (InCycle /\ cycles > 0 /\ cycles % cycles_per_driver = 0) =>
          /\ driver = <<cycles, "age">>
          /\ live = {driver}
          /\ driverCycles <= 1

\* the session opened by an age recycle has served a fetch
C6_Witness ==
    /\ InCycle
    /\ driver = <<cycles_per_driver, "age">>
    /\ fetchedWith = {driver}
    /\ MainDriver \notin live

\* C7 as stated: whatever the health outcome, the remaining time to the
\* cadence was computed and waited before the next cycle pulls its batch
C7_CadenceAlways ==
    (pc \in {"LoopTop", "AgeOpen", "Pull"} /\ cycles > 0) => cadenceWaited # "No"

\* C7: the remaining time to the cadence was computed and (when positive)
\* waited before the next cycle pulls its batch exactly when the completed
\* cycle ended in Normal or Cooldown; after Recycling the next cycle starts
\* without it
C7_CadenceUnlessRecycled ==
    (pc \in {"LoopTop", "AgeOpen", "Pull"} /\ cycles > 0) =>
        /\ outcome \in {"Normal", "Cooldown", "Recycling"}
        /\ (cadenceWaited # "No") <=> (outcome \in {"Normal", "Cooldown"})

\* the next cycle is about to pull its batch after a cooldown and the wait
C7_Witness ==
    /\ pc = "Pull"
    /\ outcome = "Cooldown"
    /\ cadenceWaited = "Slept"

\* C8: refresh_all is called once per completed cycle after all its tiles,
\* and its failure does not stop the run
C8_RefreshFailureNotFatal ==
    /\ refreshCalls > 0 => (refreshCalls = 1 /\ idx = tiles_per_cycle)
    /\ ~(pc = "Exit" /\ exitCause = "refresh")

\* C9: the failing insert_fixes call is issued once, the failure leaves the
\* cycle, and nothing happens after it: no fetch, insert, refresh, summary or
\* health evaluation
C9_PersistFailureFatal ==
    /\ [](exitCause = "persist" =>
            /\ pc = "Exit"
            /\ insertCalls = (idx - failed_tiles) + 1
            /\ attempts[idx + 1] = 1
            /\ \A i \in (idx + 2)..tiles_per_cycle : attempts[i] = 0
            /\ refreshCalls = 0
            /\ summaries = 0
            /\ outcome = "None")
    /\ [][exitCause = "persist" => UNCHANGED vars]_vars

\* an insert failed while tiles of the batch were still to be fetched
C9_Witness ==
    /\ exitCause = "persist"
    /\ 0 < idx
    /\ idx + 1 < tiles_per_cycle

C11_SelfHealing ==
    /\ (pc = "Health" /\ cycles < cycle_limit) ~>
          \/ pc = "Pull" /\ health = "Normal" /\ live = {driver}
          \/ exitCause = "cancel"
    /\ [][((pc = "Health" \/ AfterHealth) /\ pc' = "Exit") =>
             exitCause' = "cancel"]_vars

\* the third cycle is about to start on a session opened by the recycle that
\* followed a cycle in which every tile failed
C11_Witness ==
    /\ pc = "Pull"
    /\ cycles >= 2
    /\ failed_tiles = tiles_per_cycle
    /\ outcome = "Recycling"
    /\ health = "Normal"
    /\ driver = <<cycles, "fail">>
    /\ live = {driver}

\* ------------------------- scheduler and startup ---------------------------
StartupPcs == {"Start", "OpenDriver", "BuildTiles"}

\* the positions (k*n + i) mod total for i in 0..n-1, counted with multiplicity
PositionsOfBatch(k, n, total) ==
    [p \in 0..(total - 1) |->
        Cardinality({i \in 0..(n - 1) : (k * n + i) % total = p})]

\* C12: while cycle k runs (k batches were pulled before its own), its batch
\* holds exactly the tiles at positions (k*n + i) mod total_tiles, i in
\* 0..n-1, and any ceil(total_tiles / n) consecutive batches together hand
\* out every position of the tile list; failures, cooldowns and recycles do
\* not move the cursor
C12_CyclicCoverage ==
    /\ InCycle =>
          tiles_this_cycle = PositionsOfBatch(cycles, tiles_per_cycle, total_tiles)
    /\ (total_tiles > 0 /\ Len(window) = WindowLen) =>
          UNION {window[i] : i \in 1..Len(window)} = 0..(total_tiles - 1)

\* a full window of batches ends in a cycle that a failure-triggered recycle
\* preceded, after the cursor wrapped around a list of several tiles that the
\* batch size does not divide
C12_Witness ==
    /\ InCycle
    /\ total_tiles > 1
    /\ total_tiles % tiles_per_cycle # 0
    /\ Len(window) = WindowLen
    /\ cycles * tiles_per_cycle > total_tiles
    /\ freshSession # NoSession

\* C13: with an empty tile list the run never leaves startup: it ends with the
\* error of build_tile_cycle (or a cancellation before it), no cycle begins and
\* no fetch, insert or refresh is issued
C13_EmptyTileSetFatal ==
    total_tiles = 0 =>
        /\ pc \in StartupPcs \cup {"Exit"}
        /\ pc = "Exit" => exitCause \in {"config", "startup-cancel"}
        /\ cycles = 0
        /\ fetchedWith = {}
        /\ insertCalls = 0
        /\ refreshCalls = 0

\* the run with the empty tile list ended on the error of build_tile_cycle
C13_Witness == total_tiles = 0 /\ pc = "Exit" /\ exitCause = "config"

\* C14 as stated: with the store down at startup the run ends in startup and
\* no tile fetch is issued
C14_StoreDownFatal ==
    ~store_up => (pc \in StartupPcs \cup {"Exit"} /\ fetchedWith = {})

\* C14: with the store down at startup, load_area_bboxes leaves the prefilter
\* set empty and returns: the run goes on to open the session (it ends in
\* startup only on a cancellation) and never ends because of the failed load
C14_StoreDownFailsOpen ==
    /\ [](~store_up => (AREA_BBOXES = {} /\ exitCause # "store"))
    /\ [][(pc = "Start" /\ ~store_up) =>
             (pc' = "OpenDriver" \/ (pc' = "Exit" /\ exitCause' = "startup-cancel"))]_vars

\* a tile is fetched in a run whose store was down at startup
C14_Witness == ~store_up /\ AREA_BBOXES = {} /\ fetchedWith # {}

\* C15: when the run has ended because the tile list was empty or because
\* insert_fixes or refresh_all raised, no session opened by the run is still
\* open
C15_ReleasedOnFailureExit ==
    (pc = "Exit" /\ exitCause \in {"config", "persist", "refresh"}) => live = {}

\* ------------------------------ the fetch call -----------------------------
FailingKinds == {"None", "NoDataKey", "NoRowsKey", "EmptyRows"}

\* C16: a call returns by its success branch exactly when the payload of its
\* last fetch is present and has a non-empty row list; a missing payload, one
\* without the data or rows key and one with an empty row list make it return
\* by the exhausted branch, and the loop counts the tile as failed for
\* exactly these payloads
C16_SuccessIffRows ==
    /\ [](pc = "Returned" =>
            /\ returnedVia = "Success" <=> payload = "Rows"
            /\ returnedVia = "Exhausted" <=> payload \in FailingKinds)
    /\ [][(pc = "Returned" /\ pc' # "Exit") =>
            /\ payload \in FailingKinds <=> failed_tiles' = failed_tiles + 1
            /\ payload = "Rows" <=> (failed_tiles' = failed_tiles /\ pc' = "Persist")]_vars

\* a call that returned a payload with an empty row list after a retry
C16_Witness ==
    pc = "Returned" /\ payload = "EmptyRows" /\ fetches > 1 /\ failed_tiles > 0

\* C17: a call makes at most max_retries + 1 fetches; it returns a success
\* on its first ok fetch (every fetch before it failed) and a failure after
\* exactly max_retries + 1 failed fetches; with max_retries = 0 a call makes
\* one fetch and sleeps no backoff
C17_BoundedFetches ==
    /\ fetches <= max_retries + 1
    /\ pc = "Backoff" => (fetches = failedFetches /\ fetches <= max_retries)
    /\ (pc = "Returned" /\ returnedVia = "Success") =>
          (failedFetches = fetches - 1 /\ PayloadOk(payload))
    /\ (pc = "Returned" /\ returnedVia = "Exhausted") =>
          (failedFetches = max_retries + 1 /\ fetches = max_retries + 1)
    /\ (pc = "Returned" /\ max_retries = 0) => (fetches = 1 /\ backoffs = <<>>)

\* a call with retries allowed returned a failure after using all of them
C17_Witness ==
    /\ pc = "Returned"
    /\ returnedVia = "Exhausted"
    /\ max_retries > 1
    /\ fetches = max_retries + 1

\* C18: the k-th backoff sleep of a call (k from 0) is BACKOFF_BASE_SECS * 2^k
\* and a call has slept one backoff per retry it made
C18_BackoffDoubles ==
    /\ \A k \in 1..Len(backoffs) : backoffs[k] = BACKOFF_BASE_SECS * Pow2(k - 1)
    /\ pc = "Backoff" => Len(backoffs) = fetches
    /\ pc = "Returned" => Len(backoffs) = fetches - 1

\* a call that slept three backoffs: 5, 10 and 20 seconds
C18_Witness ==
    /\ pc = "Returned"
    /\ Len(backoffs) = 3
    /\ backoffs[3] = 4 * BACKOFF_BASE_SECS

\* C19: each processed tile has slept one pacing pause: a failed tile inside
\* the call, on its exhausted attempt, for which no backoff is slept, and the
\* loop adds none for it; a tile that succeeded after insert_fixes returned
C19_OnePausePerTile ==
    /\ [](/\ pc = "Tiles" => pauses = idx
          /\ pc = "Backoff" => pauses = idx
          /\ pc = "Persist" => pauses = idx
          /\ (pc = "Health" \/ AfterHealth) => pauses = tiles_per_cycle
          /\ (pc = "Returned" /\ returnedVia = "Exhausted") =>
                (pauses = idx + 1 /\ Len(backoffs) = fetches - 1)
          /\ (pc = "Returned" /\ returnedVia = "Success") => pauses = idx)
    /\ [][/\ (pc = "Returned" /\ pc' = "Tiles") => pauses' = pauses
          /\ (pc = "Persist" /\ pc' = "Tiles") =>
                (pauses' = pauses + 1 /\ insertCalls' = insertCalls + 1)]_vars

\* a cycle of several tiles ended with failed and persisted tiles
C19_Witness ==
    /\ pc = "Health"
    /\ tiles_per_cycle > 1
    /\ 0 < failed_tiles
    /\ failed_tiles < tiles_per_cycle
    /\ pauses = tiles_per_cycle

\* C20 as stated: a returned call has emitted one status event per fetch
C20_EventPerAttempt == pc = "Returned" => events = fetches

\* C20: a returned call has emitted one status event per fetch, except that
\* a call whose first fetch succeeded has emitted none
C20_EventPerAttemptButFirstSuccess ==
    /\ pc = "Backoff" => events = fetches
    /\ pc = "Returned" =>
          events = (IF returnedVia = "Success" /\ fetches = 1 THEN 0 ELSE fetches)

\* a call succeeded on its first fetch without any status event
C20_Witness ==
    pc = "Returned" /\ returnedVia = "Success" /\ fetches = 1 /\ events = 0

\* --------------------------- the tile loop's frame -------------------------
\* C21: the step that counts a tile as failed leaves received_total,
\* kept_total and inserted_total as they were and calls neither
\* normalize_rows_from_payload nor insert_fixes; both are called once for
\* each tile that did not fail
C21_FailedTileFrame ==
    /\ [][failed_tiles' = failed_tiles + 1 =>
             /\ received_total' = received_total
             /\ kept_total' = kept_total
             /\ inserted_total' = inserted_total
             /\ normalizeCalls' = normalizeCalls
             /\ insertCalls' = insertCalls]_vars
    /\ [](pc = "Tiles" =>
             /\ normalizeCalls = idx - failed_tiles
             /\ insertCalls = idx - failed_tiles)

\* a tile failed after another tile of the cycle had its rows counted and
\* a record kept
C21_Witness ==
    /\ pc = "Tiles"
    /\ idx = 2
    /\ failed_tiles = 1
    /\ normalizeCalls = 1
    /\ received_total = 2
    /\ kept_total = 1

\* C22: between the first fetch of a cycle and the end of its tile loop the
\* session the loop holds, the set of open sessions, the health state and the
\* cooldown sleeps do not change; every fetch of the cycle uses the session
\* the loop holds, which is the one open session
C22_StableWithinCycle ==
    /\ [][(InCycle /\ InCycle') =>
             /\ driver' = driver
             /\ live' = live
             /\ health' = health
             /\ slept' = slept
             /\ COOLDOWN_TIME' = COOLDOWN_TIME]_vars
    /\ []((InCycle \/ pc = "Health") =>
             /\ fetchedWith \subseteq {driver}
             /\ live = {driver}
             /\ health = "Normal"
             /\ slept = NoTime)

\* a cycle of several tiles ended, all fetched with the session that a
\* failure recycle opened
C22_Witness ==
    /\ pc = "Health"
    /\ tiles_per_cycle > 1
    /\ driver = <<cycles - 1, "fail">>
    /\ fetchedWith = {driver}

\* ------------------------------ the normalizer -----------------------------
\* the one raw row at hand and what became of it
TheRow == rows[1]
RowEmitted == normalized /\ Len(rows) = 1 /\ stages[1] = "emitted"

\* C23: every record of the returned list has -90 <= lat <= 90,
\* -180 <= lon <= 180 and a sog that is not above the cap
C23_CoordsAndCap ==
    normalized =>
        \A i \in 1..Len(out) :
            /\ ~out[i].lat.nan /\ ~out[i].lon.nan
            /\ (0 - 90) * out[i].lat.den <= out[i].lat.num
            /\ out[i].lat.num <= 90 * out[i].lat.den
            /\ (0 - 180) * out[i].lon.den <= out[i].lon.num
            /\ out[i].lon.num <= 180 * out[i].lon.den
            /\ (out[i].sog.ok /\ ~out[i].sog.nan) =>
                  out[i].sog.num <= max_tanker_sog_kn * out[i].sog.den

\* a row at exactly the cap was emitted, and a row above it was dropped for
\* its speed
C23_Witness ==
    /\ RowEmitted
    /\ out[1].sog.num = max_tanker_sog_kn * out[1].sog.den
    /\ TheRow.LON = <<"1", "0">>

\* C24: every record of the returned list that has a sog has a sog >= 0
C24_SogNonNegative ==
    normalized =>
        \A i \in 1..Len(out) :
            out[i].sog.ok => (~out[i].sog.nan /\ out[i].sog.num >= 0)

\* C25: the record of a row without ELAPSED has ts = fetch_ts, the record of
\* a row with ELAPSED 5 or 720 (the maximum) has ts = fetch_ts - 5 or
\* fetch_ts - 720, and no such row is dropped for its age
C25_TsDerivation ==
    /\ (normalized /\ Len(rows) = 1 /\
        TheRow.ELAPSED \in {None, <<"5">>, <<"7", "2", "0">>}) => stages[1] # "ts"
    /\ RowEmitted =>
          /\ TheRow.ELAPSED = None => out[1].ts = fetch_ts
          /\ TheRow.ELAPSED = <<"5">> => out[1].ts = fetch_ts - 5
          /\ TheRow.ELAPSED = <<"7", "2", "0">> => out[1].ts = fetch_ts - 720

\* a row of the maximum age was emitted with its time 720 minutes back
C25_Witness ==
    /\ RowEmitted
    /\ TheRow.ELAPSED = <<"7", "2", "0">>
    /\ out[1].ts = FetchTs - DROP_IF_OBS_AGE_MIN

\* C26: a row whose ELAPSED is above the maximum, negative or no integer is
\* not emitted
C26_BadAgeDropped ==
    (normalized /\ Len(rows) = 1 /\
     TheRow.ELAPSED \in {<<"7", "2", "1">>, <<"-", "1">>, <<"x">>}) => stages[1] # "emitted"

\* the position of the one row at hand, both coordinates being whole numbers
PointInBoxes(boxes) ==
    \E b \in boxes :
        /\ b[1] <= to_float(TheRow.LON).num /\ to_float(TheRow.LON).num <= b[3]
        /\ b[2] <= to_float(TheRow.LAT).num /\ to_float(TheRow.LAT).num <= b[4]

\* C27: with no boxes (the store held none or the load failed) the prefilter
\* drops no row; with boxes it drops a row that came as far as the prefilter
\* exactly when its point is in none of them, the edges counting as inside
C27_PrefilterFailOpen ==
    (normalized /\ Len(rows) = 1) =>
        /\ AREA_BBOXES = {} => stages[1] # "prefilter"
        /\ (AREA_BBOXES # {} /\ stages[1] \notin {"type", "ts", "coords", "range"}) =>
              (stages[1] = "prefilter" <=> ~PointInBoxes(AREA_BBOXES))

\* the load failed and a row whose point is in no box of the store was emitted
C27_Witness ==
    /\ RowEmitted
    /\ ~store_up
    /\ AREA_BBOXES = {}
    /\ ~PointInBoxes(store_boxes)

\* with boxes loaded a row on the edge of a box went on and a row between the
\* boxes was dropped by the prefilter
C27_WitnessDropped ==
    /\ normalized
    /\ AREA_BBOXES # {}
    /\ stages[1] = "prefilter"

\* C28: every record has src terrestrial, and a row with the placeholder name
\* or with a provider id that is absent or not a number is not emitted
C28_SatelliteDropped ==
    /\ normalized => \A i \in 1..Len(out) : out[i].src = "terrestrial"
    /\ RowEmitted =>
          /\ TheRow.SHIPNAME # <<" ", "[", "s", "a", "t", "-", "a", "i", "s", "]", " ">>
          /\ TheRow.SHIP_ID = <<"1", "2">>

\* a row with a name of its own and an opaque provider id was dropped as a
\* satellite row
C28_Witness ==
    /\ normalized
    /\ Len(rows) = 1
    /\ stages[1] = "sat"
    /\ TheRow.SHIPNAME = <<"A", "B">>
    /\ TheRow.SHIP_ID = <<"a", "=">>

\* the batch of the scenario, in any order
ScenarioBatch ==
    /\ Len(rows) = 3
    /\ {rows[i] : i \in 1..3} = {OtherTypeRow, StaleRow, FastRow}

\* C29: of the three rows of the scenario exactly one record is returned
\* under a cap of 40 knots or more, with vessel_uid mmsi:7 and sog 40.0;
\* under the cap of 35 knots none is returned
C29_Scenario ==
    (normalized /\ ScenarioBatch) =>
        IF max_tanker_sog_kn >= 40
        THEN /\ Len(out) = 1
             /\ out[1].vessel_uid = <<"m", "m", "s", "i", ":", "7">>
             /\ out[1].sog.ok /\ ~out[1].sog.nan
             /\ out[1].sog.num = 40 * out[1].sog.den
        ELSE out = <<>>

\* the batch of the scenario gave one record under the cap of 40 knots
C29_Witness ==
    /\ normalized
    /\ ScenarioBatch
    /\ max_tanker_sog_kn = 40
    /\ Len(out) = 1

\* C30: the uid of a row is mmsi:<A> if MMSI (or, MMSI being absent or
\* empty, mmsi) is a number; else imo:<B> if IMO (or imo) is a number; else
\* mtid:<id> if SHIP_ID is all digits; else sat:<id> if SHIP_ID is not blank;
\* else the surrogate h:...
C30_PriorityChain ==
    (resolved /\ Len(rows) = 1) =>
        LET a   == Or(TheRow.MMSI, TheRow.mmsi)
            b   == Or(TheRow.IMO, TheRow.imo)
            sid == TheRow.SHIP_ID
        IN  uids[1] =
               IF a \in {<<"7">>, <<"8">>} THEN <<"m", "m", "s", "i", ":">> \o a
               ELSE IF b \in {<<"9">>, <<"6">>} THEN <<"i", "m", "o", ":">> \o b
               ELSE IF sid = <<"1", "2">> THEN <<"m", "t", "i", "d", ":", "1", "2">>
               ELSE IF sid = <<"a", "=">> THEN <<"s", "a", "t", ":", "a", "=">>
               ELSE <<"h", ":">> \o SubSeq(uids[1], 3, Len(uids[1]))

\* a row whose MMSI is no number, whose IMO is one and whose provider id is
\* opaque resolved by its IMO
C30_Witness ==
    /\ resolved
    /\ TheRow.MMSI = <<"x">>
    /\ TheRow.IMO = <<"9">>
    /\ TheRow.SHIP_ID = <<"a", "=">>
    /\ uids[1] = <<"i", "m", "o", ":", "9">>

\* ------------------------------ the resolver -------------------------------
\* the fields of a row that make_vessel_uid reads
Relevant(r) ==
    <<r.MMSI, r.mmsi, r.IMO, r.imo, r.SHIP_ID, r.SHIPNAME, r.FLAG, r.LENGTH,
      r.WIDTH, r.SHIPTYPE, r.TYPE_NAME>>

\* C31: two rows that agree on MMSI, IMO, SHIP_ID, SHIPNAME, FLAG, LENGTH,
\* WIDTH and the type have the same uid, and the vessel_uid the normalizer
\* computed at fetch time for either of them is that uid
C31_Deterministic ==
    (Len(rows) = 2 /\ Relevant(rows[1]) = Relevant(rows[2])) =>
        /\ resolved => uids[1] = uids[2]
        /\ (resolved /\ normalized) =>
              \A k \in 1..Len(out) : out[k].vessel_uid = uids[1]

\* two rows at different positions that agree on the fields the resolver
\* reads got the same surrogate
C31_Witness ==
    /\ resolved
    /\ rows[1] # rows[2]
    /\ Relevant(rows[1]) = Relevant(rows[2])
    /\ uids[1] = uids[2]
    /\ SubSeq(uids[1], 1, 2) = <<"h", ":">>

\* C32: the uid of every row and the vessel_uid of every record is not empty
C32_UidNotEmpty ==
    /\ resolved => \A i \in 1..Len(rows) : uids[i] # <<>>
    /\ normalized => \A k \in 1..Len(out) : out[k].vessel_uid # <<>>

\* the blank row and a row without any identity field were resolved
C32_Witness ==
    /\ resolved
    /\ rows[1] = BlankRow
    /\ \A f \in {"MMSI", "mmsi", "IMO", "imo", "SHIP_ID", "SHIPNAME", "FLAG",
                 "LENGTH", "WIDTH", "SHIPTYPE", "TYPE_NAME"} : rows[2][f] = None
    /\ SubSeq(uids[1], 1, 2) = <<"h", ":">> /\ Len(uids[1]) > 2
    /\ SubSeq(uids[2], 1, 2) = <<"h", ":">> /\ Len(uids[2]) > 2

\* ------------------------------ the persister ------------------------------
\* C33: no list handed to executemany is longer than batch_size
C33_ChunkBounded ==
    persisted => \A k \in 1..Len(chunks) : Len(chunks[k]) <= batch_size

\* a list longer than the batch size went out in chunks, one of them full
C33_Witness ==
    /\ persisted
    /\ batch_size = 2
    /\ Len(handed) = 3
    /\ Len(chunks[1]) = 2

\* the place of a uid of the scenario in the order of texts
UidRank(uid) == IF uid = <<"m", "m", "s", "i", ":", "7">> THEN 1 ELSE 2

\* C34: the list insert_fixes is called with is ascending by vessel_uid and,
\* among records of one vessel_uid, by ts
C34_HandedSorted ==
    persisted =>
        \A i \in 1..(Len(handed) - 1) :
            \/ UidRank(handed[i].vessel_uid) < UidRank(handed[i + 1].vessel_uid)
            \/ /\ handed[i].vessel_uid = handed[i + 1].vessel_uid
               /\ handed[i].ts <= handed[i + 1].ts

\* three rows that came in descending order were handed over ascending
C34_Witness ==
    /\ persisted
    /\ rows = <<SlowRow, OlderRow, FastRow>>
    /\ Len(handed) = 3
    /\ handed[1].vessel_uid = <<"m", "m", "s", "i", ":", "7">>
    /\ handed[2].ts < handed[3].ts

\* the lists of cs one after the other
RECURSIVE Concat(_)
Concat(cs) == IF cs = <<>> THEN <<>> ELSE Head(cs) \o Concat(Tail(cs))

\* C39: the chunks in the order they were handed to executemany make up the
\* list insert_fixes was called with, there are ceil(len / batch_size) of
\* them, and for an empty list there is none and the count returned is 0
C39_ChunksLoseNothing ==
    persisted =>
        /\ Concat(chunks) = handed
        /\ Len(chunks) = (Len(handed) + batch_size - 1) \div batch_size
        /\ handed = <<>> => (chunks = <<>> /\ inserted = 0)

\* three records went out as a chunk of two and a chunk of one
C39_Witness ==
    /\ persisted
    /\ batch_size = 2
    /\ Len(handed) = 3
    /\ Len(chunks) = 2
    /\ Len(chunks[2]) = 1

\* the normalizer kept none of the rows and insert_fixes made no call
C39_WitnessEmpty ==
    /\ persisted
    /\ rows # <<>>
    /\ handed = <<>>
    /\ chunks = <<>>

\* ------------------------------ the loop -----------------------------------
\* C35: every batch pulled holds tiles_per_cycle tiles, so no cycle is
\* counted for an empty batch, the tile loop has made tiles_per_cycle passes
\* when the health policy runs, and the branch the policy takes is the one
\* of failed_tiles over the number of tiles processed
C35_FullBatches ==
    /\ (InCycle \/ pc = "Health" \/ AfterHealth \/ cycles > 0) =>
          BatchLen(tiles_this_cycle) = tiles_per_cycle
    /\ (pc = "Health" \/ AfterHealth) => idx = tiles_per_cycle
    /\ outcome # "None" => outcome = HealthOutcome(failed_tiles, idx)

\* a list of fewer tiles than tiles_per_cycle gave a batch in which a tile
\* repeats, and the health policy ran on it
C35_Witness ==
    /\ AfterHealth
    /\ total_tiles < tiles_per_cycle
    /\ \E p \in DOMAIN tiles_this_cycle : tiles_this_cycle[p] > 1
    /\ failed_tiles > 0
    /\ outcome = HealthOutcome(failed_tiles, idx)

\* C36: at most one session is live; when a session is about to be opened
\* (at startup, by the age recycle, by the failure recycle) none is live;
\* and within a cycle the live session is the one the loop holds, which is
\* the one opened last, and every fetch was made with it
C36_OneLiveSession ==
    /\ Cardinality(live) <= 1
    /\ pc \in {"OpenDriver", "AgeOpen", "RecycleOpen"} => live = {}
    /\ InCycle => (live = {driver} /\ fetchedWith \subseteq {driver})

\* after a failure recycle and an age recycle the one live session is the
\* one the age recycle opened, and it has served a fetch
C36_Witness ==
    /\ InCycle
    /\ freshSession # NoSession
    /\ driver = <<cycles, "age">>
    /\ live = {driver}
    /\ fetchedWith = {driver}

\* C37: cycles goes up by one with every completed cycle and never goes
\* down; the loop top takes the age recycle exactly when cycles is a
\* positive multiple of cycles_per_driver; and a session the failure recycle
\* opened at the end of the cycle before is then quit without having served
\* a fetch
C37_AgeCounter ==
    /\ [][/\ cycles' \in {cycles, cycles + 1}
          /\ (pc = "Tiles" /\ pc' \in {"Health", "Exit"} /\ exitCause' # "cancel"
              /\ exitCause' # "persist")
                => cycles' = cycles + 1
          /\ (pc = "LoopTop" /\ pc' \in {"AgeOpen", "Pull"}) =>
                ((pc' = "AgeOpen") <=>
                 (cycles > 0 /\ cycles % cycles_per_driver = 0))]_vars
    /\ [](pc = "AgeOpen" /\ freshSession # NoSession =>
            (freshSession \notin live /\ driver = freshSession /\ driverCycles = 0))

\* the age recycle has quit a session that the failure recycle had just
\* opened
C37_Witness ==
    /\ pc = "AgeOpen"
    /\ freshSession # NoSession
    /\ freshSession \notin live
    /\ driverCycles = 0
    /\ cycles % cycles_per_driver = 0

\* C38: the three totals are zero when a cycle starts and failed_tiles is
\* zero when its tile loop starts; at every point kept_total <=
\* received_total, and within the tile loop failed_tiles <= the tiles
\* processed <= the tiles of the batch; when the summary is emitted
\* failed_tiles plus the tiles that were normalized and handed to
\* insert_fixes is the number of tiles of the batch; and a tile adds no more
\* to kept_total than it adds to received_total
C38_CycleStats ==
    /\ [](/\ pc \in {"AgeOpen", "Pull"} =>
                (received_total = 0 /\ kept_total = 0 /\ inserted_total = 0)
          /\ (pc = "Tiles" /\ idx = 0) =>
                /\ received_total = 0 /\ kept_total = 0 /\ inserted_total = 0
                /\ failed_tiles = 0
          /\ kept_total <= received_total
          /\ InCycle =>
                (failed_tiles <= idx /\ idx <= BatchLen(tiles_this_cycle))
          /\ summaries > 0 =>
                /\ failed_tiles + normalizeCalls = BatchLen(tiles_this_cycle)
                /\ insertCalls = normalizeCalls)
    /\ [][pc = "Persist" =>
             kept_total' - kept_total <= received_total' - received_total]_vars

\* the summary of a cycle of two tiles, one failed and one with two rows of
\* which the normalizer kept one
C38_Witness ==
    /\ summaries = 1
    /\ BatchLen(tiles_this_cycle) = 2
    /\ failed_tiles = 1
    /\ normalizeCalls = 1
    /\ received_total = 2
    /\ kept_total = 1
    /\ cycles > 1

\* C40: the record of an emitted row carries a ship_id that is all digits,
\* and its vessel_uid is of the form mmsi:<n>, imo:<n> or mtid:<digits>,
\* never sat:... or h:...
C40_EmittedUidForms ==
    RowEmitted =>
        /\ TheRow.SHIP_ID = <<"1", "2">>
        /\ out[1].ship_id = <<"1", "2">>
        /\ out[1].vessel_uid \in {<<"m", "m", "s", "i", ":", "7">>, <<"m", "m", "s", "i", ":", "8">>, <<"i", "m", "o", ":", "9">>, <<"i", "m", "o", ":", "6">>, <<"m", "t", "i", "d", ":", "1", "2">>}

\* a row whose MMSI and IMO are no numbers was emitted under its numeric
\* provider id
C40_Witness ==
    /\ RowEmitted
    /\ TheRow.MMSI = <<"x">>
    /\ TheRow.IMO = <<"y">>
    /\ TheRow.imo = None
    /\ out[1].vessel_uid = <<"m", "t", "i", "d", ":", "1", "2">>

====
